---- MODULE Spec2Model ----
(***************************************************************************)
(* DogeNet networking engine: the peer fabric of NetService               *)
(* (internal/netsvc/service.go), its forwarding primitives and its        *)
(* announcement loop, over the announce and node tables of the SQLite     *)
(* store (internal/store/sqlite.go).                                      *)
(***************************************************************************)
EXTENDS Integers, Sequences, FiniteSets, TLC

\* ------------------------------------------------------------------ bounds
MaxSessions == 2      \* peer connections ever accepted or dialed in one run
MaxTicks == 2         \* clock advances in one run
MaxAdds == 1          \* AddPeer injections in one run
MaxHandlers == 2      \* handler connections ever accepted in one run
MaxMsgs == 3          \* channel messages decoded from peers in one run
MaxAddrs == 2         \* node/Addr announcements decoded from peers in one run
MaxToday == 2         \* calendar days the system clock advances in one run
MaxCalls == 3         \* store calls of crawler, trimmer and peers in one run
PeerQueueCap == 1     \* capacity of a peer session's outbound queue
HandlerQueueCap == 2  \* capacity of a handler session's queue

\* the remote NodeKeys of the model
Keys == {1, 2}

\* ------------------------------------------------------- program constants
IdealPeers == 8
PeerLockTime == 300
NewPeersCap == 10
NoPubKey == 0
NetNodeDays == 30
MaxCoreNodeDays == 3
ChannelDays == 7
TxnLimit == 120
AnnounceLongevity == 300

ChannelNode == "node"
Channels == {"foo", "bar"}
NoChannel == ""
Handlers == 1..MaxHandlers

\* node/Addr payloads: the encoded AddressMsg (time and channel list)
AddrPayloads == {[time |-> 1, channels |-> <<"foo">>],
                 [time |-> 2, channels |-> <<"bar">>]}

Sessions == 1..MaxSessions
TickSteps == {1, PeerLockTime - 1}

\* ------------------------------------------------------------------- state
VARIABLES
  stopping,        \* ns.Stopping(): the service context is cancelled
  stopDone,        \* Stop() has run
  listenOpen,      \* the accept socket of the listener is open
  connections,     \* ns.connections: sequence of tracked sockets
  connectedPeers,  \* ns.connectedPeers: map NodeKey -> session
  lockedPeers,     \* ns.lockedPeers: map NodeKey -> unlock time
  newPeers,        \* ns.newPeers: queue of injected NodeInfo
  phase,           \* per peer session: position in its life cycle
  peerPub,         \* per peer session: peer.peerPub
  outbound,        \* per peer session: dialed (TRUE) or accepted (FALSE)
  connOpen,        \* per peer session: its socket is open
  nextSess,        \* number of sessions created so far
  lsPc, lsSess,    \* acceptIncoming: position, connection in hand
  fpPc, fpNode, fpSess, \* findPeers: position, chosen NodeInfo, dialed session
  now, ticks,      \* wall clock (seconds), number of advances
  adds,            \* number of AddPeer calls so far
  lost,            \* history: sessions whose trackPeer/adoptPeer returned false
  grants,          \* history: <<session, key>> granted and not yet closed
  dialLog          \* history: map NodeKey -> times at which a dial was started

netVars == <<stopping, stopDone, listenOpen, connections, connectedPeers,
             lockedPeers, newPeers, phase, peerPub, outbound, connOpen,
             nextSess, lsPc, lsSess, fpPc, fpNode, fpSess, now, ticks, adds,
             lost, grants, dialLog>>

\* forwarding state
VARIABLES
  sendq,           \* per peer session: peer.send, the bounded outbound queue
  handlers,        \* ns.handlers: sequence of tracked handler sessions
  hphase,          \* per handler session: position in its life cycle
  hchan,           \* per handler session: hand.channel (0 until declared)
  hq,              \* per handler session: hand.send, the bounded queue
  recvCount,       \* number of messages decoded from peers so far
  rx,              \* per peer session: the decoded inbound message in hand
  rxFound          \* per peer session: result of its last forwardToHandlers

fwdVars == <<sendq, handlers, hphase, hchan, hq, recvCount, rx, rxFound>>

\* announcement loop state
VARIABLES
  nextAnnounce,    \* ns.nextAnnounce: the unsigned body
  encAnnounce,     \* ns.encAnnounce: the current signed announcement
  annPc,           \* updateAnnounce: position
  annMsg,          \* updateAnnounce: msg in hand
  annRemain,       \* updateAnnounce: remain in hand
  timerAt,         \* updateAnnounce: expiry time of timer
  addrChange,      \* ns.addrChange: the channel (made or nil) and the
                   \* bodies of the senders blocked on it
  annErr,          \* loadOrGenerateAnnounce: err of GetAnnounce
  setLog           \* history: SetAnnounce calls, <<payload, sig, ok>>

annVars == <<nextAnnounce, encAnnounce, annPc, annMsg, annRemain,
             timerAt, addrChange, annErr, setLog>>

\* store tables (SQL_SCHEMA)
VARIABLES
  config,          \* table config: the singleton row [dayc, last]
  node,            \* table node: map NodeKey -> row (with its rowid, oid)
  chan,            \* table chan: set of <<node oid, channel>>
  announce,        \* table announce: sequence of at most one row
  core,            \* table core: map Address -> row
  channels,        \* table channels: map channel -> expiry day-count
  today,           \* unixDayStamp(): the calendar day of the system clock
  calls,           \* number of store calls made by the crawler, the trimmer
                   \* and the peers so far
  ret,             \* what the last of these calls returned to its caller
  txOp,            \* doTxn: the store operation that runs it
  txPc,            \* doTxn: position
  txLimit,         \* doTxn: limit, the attempts left
  txConn,          \* the one connection of the pool (SetMaxOpenConns(1)):
                   \* "free", or "held" by a transaction that is not finished
  txErr            \* doTxn: the error it returns

txVars == <<txOp, txPc, txLimit, txConn, txErr>>

storeVars == <<config, node, chan, announce, core, channels, today, calls,
               ret, txVars>>

\* local control socket and its accept task; socket and file operations made
\* inside critical sections of ns.mutex
VARIABLES
  socket,          \* ns.socket: "nil", "open" or "closed"
  sockFile,        \* whether the path ProtocolSocket exists
  hsPc,            \* acceptHandlers: position
  hsHand,          \* acceptHandlers: the handler session in hand
  hconnOpen,       \* per handler session: whether its socket is open
  mutexIO          \* the socket and file operations performed so far between
                   \* ns.mutex.Lock() and ns.mutex.Unlock()

sockVars == <<socket, sockFile, hsPc, hsHand, hconnOpen, mutexIO>>

\* the network map of core node addresses: NetMap.state and NetMap.sample,
\* and the address the last ChooseNode returned with the queue it came from
VARIABLES Nodes, NewNodes, SeedNodes, sample, chosen
mapVars == <<Nodes, NewNodes, SeedNodes, sample, chosen>>

vars == <<netVars, fwdVars, annVars, storeVars, sockVars, mapVars>>

\* -------------------------------------------------------------- Go helpers
\* m[k] = v on a Go map
MapPut(m, k, v) == [x \in (DOMAIN m) \cup {k} |-> IF x = k THEN v ELSE m[x]]
\* delete(m, k) on a Go map
MapDelete(m, k) == [x \in (DOMAIN m) \ {k} |-> m[x]]
EmptyMap == [x \in {} |-> 0]

Range(s) == {s[i] : i \in DOMAIN s}

\* index of the first element of s equal to c, 0 if none
RECURSIVE IndexFrom(_, _, _)
IndexFrom(s, c, i) ==
  IF i > Len(s) THEN 0 ELSE IF s[i] = c THEN i ELSE IndexFrom(s, c, i + 1)

\* "remove from unordered array": s[i] = s[len-1]; s = s[:len-1]
SwapRemove(s, c) ==
  LET i == IndexFrom(s, c, 1) IN
  IF i = 0 THEN s
  ELSE SubSeq([s EXCEPT ![i] = s[Len(s)]], 1, Len(s) - 1)

ZeroNodeInfo == [PubKey |-> NoPubKey, Valid |-> FALSE]
NodeInfo(k) == [PubKey |-> k, Valid |-> TRUE]
IsValid(n) == n.Valid

PeerConn(s) == <<"peer", s>>
HandConn(h) == <<"hand", h>>

\* ------------------------------------------------- thread-safe primitives
countPeers == Cardinality(DOMAIN connectedPeers)

havePeer(pubKey) == pubKey \in DOMAIN connectedPeers

\* lockPeer without the hold-off added to the stored time
lockPeer_NoHold(pubKey) ==
  IF pubKey \in DOMAIN lockedPeers /\ now < lockedPeers[pubKey]
  THEN [ok |-> FALSE, lockedPeers |-> lockedPeers]
  ELSE [ok |-> TRUE, lockedPeers |-> MapPut(lockedPeers, pubKey, now)]

lockPeer(pubKey) ==
  IF pubKey \in DOMAIN lockedPeers /\ now < lockedPeers[pubKey]
  THEN [ok |-> FALSE, lockedPeers |-> lockedPeers]
  ELSE [ok |-> TRUE,
        lockedPeers |-> MapPut(lockedPeers, pubKey, now + PeerLockTime)]

\* trackPeer that registers the session without looking for an incumbent
trackPeer_NoDupCheck(conn, peer, pubKey) ==
  IF stopping
  THEN [ok |-> FALSE, connections |-> connections,
        connectedPeers |-> connectedPeers]
  ELSE [ok |-> TRUE, connections |-> Append(connections, conn),
        connectedPeers |-> IF pubKey # NoPubKey
                           THEN MapPut(connectedPeers, pubKey, peer)
                           ELSE connectedPeers]

trackPeer(conn, peer, pubKey) ==
  IF stopping
  THEN [ok |-> FALSE, connections |-> connections,
        connectedPeers |-> connectedPeers]
  ELSE LET tracked == Append(connections, conn) IN
       IF pubKey # NoPubKey
       THEN IF pubKey \in DOMAIN connectedPeers
            THEN [ok |-> FALSE, connections |-> tracked,
                  connectedPeers |-> connectedPeers]
            ELSE [ok |-> TRUE, connections |-> tracked,
                  connectedPeers |-> MapPut(connectedPeers, pubKey, peer)]
       ELSE [ok |-> TRUE, connections |-> tracked,
             connectedPeers |-> connectedPeers]

\* adoptPeer that overwrites the incumbent
adoptPeer_NoDupCheck(peer, pubKey) ==
  [ok |-> TRUE, connectedPeers |-> MapPut(connectedPeers, pubKey, peer)]

adoptPeer(peer, pubKey) ==
  IF pubKey \in DOMAIN connectedPeers
  THEN [ok |-> FALSE, connectedPeers |-> connectedPeers]
  ELSE [ok |-> TRUE, connectedPeers |-> MapPut(connectedPeers, pubKey, peer)]

\* closePeer that deletes the key's entry whoever holds it
closePeer_NoOwnerCheck(peer) ==
  [connectedPeers |-> MapDelete(connectedPeers, peerPub[peer]),
   connections |-> SwapRemove(connections, PeerConn(peer))]

closePeer(peer) ==
  LET key == peerPub[peer] IN
  [connectedPeers |->
     IF key \in DOMAIN connectedPeers /\ connectedPeers[key] = peer
     THEN MapDelete(connectedPeers, key)
     ELSE connectedPeers,
   connections |-> SwapRemove(connections, PeerConn(peer))]

\* ------------------------------------------------------------ store reads
\* ChooseNetNode: the keys ORDER BY RANDOM() LIMIT 1 can return
ChooseNetNode == DOMAIN node

\* ---------------------------------------------------------- startListeners
\* startListeners, between ns.mutex.Lock() and Unlock(): lc.Listen; on an
\* error the address is skipped; when the service is stopping the listener is
\* closed again; otherwise it is appended to ns.listen and acceptIncoming is
\* started.  Run starts the other tasks when startListeners has returned.
LsListen(ok) ==
  /\ lsPc = "start"
  /\ IF ~ok THEN /\ lsPc' = "none"
                /\ mutexIO' = mutexIO \cup {"lc.Listen"}
                /\ UNCHANGED listenOpen
     ELSE IF stopping
     THEN /\ lsPc' = "none"
          /\ mutexIO' = mutexIO \cup {"lc.Listen", "listner.Close"}
          /\ UNCHANGED listenOpen
     ELSE /\ lsPc' = "accept"
          /\ listenOpen' = TRUE
          /\ mutexIO' = mutexIO \cup {"lc.Listen"}
  /\ UNCHANGED <<stopping, stopDone, connections, connectedPeers,
                 lockedPeers, newPeers, phase, peerPub, outbound, connOpen,
                 nextSess, lsSess, fpPc, fpNode, fpSess, now, ticks, adds,
                 lost, grants, dialLog>>
  /\ UNCHANGED <<socket, sockFile, hsPc, hsHand, hconnOpen>>
  /\ UNCHANGED <<fwdVars, annVars, storeVars, mapVars>>

\* --------------------------------------------------------- acceptIncoming
\* listner.Accept() returns a connection; newPeer(conn, remote, NoPubKey, false, ns)
LsAccept ==
  /\ lsPc = "accept" /\ listenOpen /\ nextSess < MaxSessions
  /\ LET s == nextSess + 1 IN
     /\ nextSess' = s
     /\ lsSess' = s
     /\ phase' = [phase EXCEPT ![s] = "new"]
     /\ peerPub' = [peerPub EXCEPT ![s] = NoPubKey]
     /\ outbound' = [outbound EXCEPT ![s] = FALSE]
     /\ connOpen' = [connOpen EXCEPT ![s] = TRUE]
  /\ lsPc' = "track"
  /\ UNCHANGED <<stopping, stopDone, listenOpen, connections, connectedPeers,
                 lockedPeers, newPeers, fpPc, fpNode, fpSess, now, ticks, adds,
                 lost, grants, dialLog>>
  /\ UNCHANGED <<fwdVars, annVars, storeVars, mapVars, sockVars>>

\* listner.Accept() fails on the closed listener: the task returns
LsAcceptFail ==
  /\ lsPc = "accept" /\ ~listenOpen
  /\ lsPc' = "done"
  /\ UNCHANGED <<stopping, stopDone, listenOpen, connections, connectedPeers,
                 lockedPeers, newPeers, phase, peerPub, outbound, connOpen,
                 nextSess, lsSess, fpPc, fpNode, fpSess, now, ticks, adds,
                 lost, grants, dialLog>>
  /\ UNCHANGED <<fwdVars, annVars, storeVars, mapVars, sockVars>>

\* ns.trackPeer(conn, peer, NoPubKey), then peer.start() or conn.Close(); return
LsTrack ==
  /\ lsPc = "track"
  /\ LET s == lsSess
         r == trackPeer(PeerConn(s), s, NoPubKey) IN
     /\ connections' = r.connections
     /\ connectedPeers' = r.connectedPeers
     /\ IF r.ok
        THEN /\ phase' = [phase EXCEPT ![s] = "handshake"]
             /\ lsPc' = "accept"
             /\ UNCHANGED <<connOpen, listenOpen, lost>>
        ELSE /\ phase' = [phase EXCEPT ![s] = "dropped"]
             /\ connOpen' = [connOpen EXCEPT ![s] = FALSE]
             /\ listenOpen' = FALSE
             /\ lost' = lost \cup {s}
             /\ lsPc' = "done"
  /\ UNCHANGED <<stopping, stopDone, lockedPeers, newPeers, peerPub, outbound,
                 nextSess, lsSess, fpPc, fpNode, fpSess, now, ticks, adds,
                 grants, dialLog>>
  /\ UNCHANGED <<fwdVars, annVars, storeVars, mapVars, sockVars>>

\* ------------------------------------------------------------ peer session
\* An inbound session decodes the remote's first message, which declares the
\* remote NodeKey k; the session calls adoptPeer(self, k) and is torn down
\* when adoptPeer refuses.
PeerHandshakeIn(s, k) ==
  /\ phase[s] = "handshake" /\ ~outbound[s] /\ connOpen[s]
  /\ peerPub' = [peerPub EXCEPT ![s] = k]
  /\ LET r == adoptPeer(s, k) IN
     /\ connectedPeers' = r.connectedPeers
     /\ IF r.ok
        THEN /\ phase' = [phase EXCEPT ![s] = "running"]
             /\ grants' = grants \cup {<<s, k>>}
             /\ UNCHANGED lost
        ELSE /\ phase' = [phase EXCEPT ![s] = "rejected"]
             /\ lost' = lost \cup {s}
             /\ UNCHANGED grants
  /\ UNCHANGED <<stopping, stopDone, listenOpen, connections, lockedPeers,
                 newPeers, outbound, connOpen, nextSess, lsPc, lsSess, fpPc,
                 fpNode, fpSess, now, ticks, adds, dialLog>>
  /\ UNCHANGED <<fwdVars, annVars, storeVars, mapVars, sockVars>>

\* An outbound session decodes the remote's first message; a declared key
\* other than the dial target is a protocol violation.
PeerHandshakeOut(s, k) ==
  /\ phase[s] = "handshake" /\ outbound[s] /\ connOpen[s]
  /\ phase' = [phase EXCEPT ![s] = IF k = peerPub[s] THEN "running"
                                    ELSE "rejected"]
  /\ UNCHANGED <<stopping, stopDone, listenOpen, connections, connectedPeers,
                 lockedPeers, newPeers, peerPub, outbound, connOpen, nextSess,
                 lsPc, lsSess, fpPc, fpNode, fpSess, now, ticks, adds, lost,
                 grants, dialLog>>
  /\ UNCHANGED <<fwdVars, annVars, storeVars, mapVars, sockVars>>

\* Any I/O error, protocol violation or refused adoption: ns.closePeer(peer);
\* the session and its send queue are dropped
PeerClose(s) ==
  /\ phase[s] \in {"handshake", "running", "rejected"}
  /\ LET r == closePeer(s) IN
     /\ connectedPeers' = r.connectedPeers
     /\ connections' = r.connections
  /\ connOpen' = [connOpen EXCEPT ![s] = FALSE]
  /\ phase' = [phase EXCEPT ![s] = "closed"]
  /\ grants' = {g \in grants : g[1] # s}
  /\ UNCHANGED <<stopping, stopDone, listenOpen, lockedPeers, newPeers,
                 peerPub, outbound, nextSess, lsPc, lsSess, fpPc, fpNode,
                 fpSess, now, ticks, adds, lost, dialLog>>
  /\ sendq' = [sendq EXCEPT ![s] = <<>>]
  /\ UNCHANGED <<handlers, hphase, hchan, hq, recvCount, rx, rxFound>>
  /\ UNCHANGED <<annVars, storeVars, mapVars, sockVars>>

\* ---------------------------------------------------------------- AddPeer
\* ns.newPeers <- node (blocks while the queue is full)
AddPeer(n) ==
  /\ adds < MaxAdds /\ Len(newPeers) < NewPeersCap
  /\ newPeers' = Append(newPeers, n)
  /\ adds' = adds + 1
  /\ UNCHANGED <<stopping, stopDone, listenOpen, connections, connectedPeers,
                 lockedPeers, phase, peerPub, outbound, connOpen, nextSess,
                 lsPc, lsSess, fpPc, fpNode, fpSess, now, ticks, lost, grants,
                 dialLog>>
  /\ UNCHANGED <<fwdVars, annVars, storeVars, mapVars, sockVars>>

\* -------------------------------------------------------------- findPeers
fpRest == <<stopping, stopDone, listenOpen, phase, peerPub, outbound,
            connOpen, nextSess, lsPc, lsSess, now, ticks, adds>>

\* choosePeer: case np := <-ns.newPeers
FpChooseNew ==
  /\ fpPc = "choose" /\ lsPc # "start" /\ ~stopping /\ newPeers # <<>>
  /\ fpNode' = Head(newPeers)
  /\ newPeers' = Tail(newPeers)
  /\ fpPc' = "have"
  /\ UNCHANGED <<fpRest, connections, connectedPeers, lockedPeers, fpSess,
                 lost, grants, dialLog>>
  /\ UNCHANGED <<fwdVars, annVars, storeVars, mapVars, sockVars>>

\* choosePeer: default: countPeers() < IdealPeers; ns.cstore.ChooseNetNode()
FpChooseStore ==
  /\ fpPc = "choose" /\ lsPc # "start" /\ ~stopping /\ newPeers = <<>>
  /\ countPeers < IdealPeers
  /\ \E k \in ChooseNetNode : fpNode' = NodeInfo(k)
  /\ fpPc' = "have"
  /\ UNCHANGED <<fpRest, connections, connectedPeers, lockedPeers, newPeers,
                 fpSess, lost, grants, dialLog>>
  /\ UNCHANGED <<fwdVars, annVars, storeVars, mapVars, sockVars>>

\* for !ns.Stopping() fails (choosePeer returns the zero NodeInfo)
FpStopping ==
  /\ fpPc = "choose" /\ lsPc # "start" /\ stopping
  /\ fpPc' = "exit"
  /\ fpNode' = ZeroNodeInfo
  /\ UNCHANGED <<fpRest, connections, connectedPeers, lockedPeers, newPeers,
                 fpSess, lost, grants, dialLog>>
  /\ UNCHANGED <<fwdVars, annVars, storeVars, mapVars, sockVars>>

\* node.IsValid() && !ns.havePeer(node.PubKey)
FpHave ==
  /\ fpPc = "have"
  /\ fpPc' = IF IsValid(fpNode) /\ ~havePeer(fpNode.PubKey) THEN "lock"
             ELSE "choose"
  /\ UNCHANGED <<fpRest, connections, connectedPeers, lockedPeers, newPeers,
                 fpNode, fpSess, lost, grants, dialLog>>
  /\ UNCHANGED <<fwdVars, annVars, storeVars, mapVars, sockVars>>

\* && ns.lockPeer(node.PubKey); on success the dial is started
FpLock ==
  /\ fpPc = "lock"
  /\ LET r == lockPeer(fpNode.PubKey) IN
     /\ lockedPeers' = r.lockedPeers
     /\ fpPc' = IF r.ok THEN "dial" ELSE "choose"
     /\ dialLog' = IF r.ok
                   THEN [dialLog EXCEPT ![fpNode.PubKey] = Append(@, now)]
                   ELSE dialLog
  /\ UNCHANGED <<fpRest, connections, connectedPeers, newPeers, fpNode,
                 fpSess, lost, grants>>
  /\ UNCHANGED <<fwdVars, annVars, storeVars, mapVars, sockVars>>

\* d.DialContext succeeds; newPeer(conn, node.Addr, node.PubKey, true, ns)
FpDialOk ==
  /\ fpPc = "dial" /\ ~stopping /\ nextSess < MaxSessions
  /\ LET s == nextSess + 1 IN
     /\ nextSess' = s
     /\ fpSess' = s
     /\ phase' = [phase EXCEPT ![s] = "new"]
     /\ peerPub' = [peerPub EXCEPT ![s] = fpNode.PubKey]
     /\ outbound' = [outbound EXCEPT ![s] = TRUE]
     /\ connOpen' = [connOpen EXCEPT ![s] = TRUE]
  /\ fpPc' = "track"
  /\ UNCHANGED <<stopping, stopDone, listenOpen, lsPc, lsSess, now, ticks,
                 adds, connections, connectedPeers, lockedPeers, newPeers,
                 fpNode, lost, grants, dialLog>>
  /\ UNCHANGED <<fwdVars, annVars, storeVars, mapVars, sockVars>>

\* d.DialContext returns an error (refused, timeout, context cancelled)
FpDialFail ==
  /\ fpPc = "dial"
  /\ fpPc' = "choose"
  /\ UNCHANGED <<fpRest, connections, connectedPeers, lockedPeers, newPeers,
                 fpNode, fpSess, lost, grants, dialLog>>
  /\ UNCHANGED <<fwdVars, annVars, storeVars, mapVars, sockVars>>

\* ns.trackPeer(conn, peer, node.PubKey), then peer.start(), or
\* conn.Close(); return
FpTrack ==
  /\ fpPc = "track"
  /\ LET s == fpSess
         r == trackPeer(PeerConn(s), s, fpNode.PubKey) IN
     /\ connections' = r.connections
     /\ connectedPeers' = r.connectedPeers
     /\ IF r.ok
        THEN /\ phase' = [phase EXCEPT ![s] = "handshake"]
             /\ grants' = grants \cup {<<s, fpNode.PubKey>>}
             /\ fpPc' = "choose"
             /\ UNCHANGED <<connOpen, lost>>
        ELSE /\ phase' = [phase EXCEPT ![s] = "dropped"]
             /\ connOpen' = [connOpen EXCEPT ![s] = FALSE]
             /\ lost' = lost \cup {s}
             /\ fpPc' = "exit"
             /\ UNCHANGED grants
  /\ UNCHANGED <<stopping, stopDone, listenOpen, peerPub, outbound, nextSess,
                 lsPc, lsSess, now, ticks, adds, lockedPeers, newPeers,
                 fpNode, fpSess, dialLog>>
  /\ UNCHANGED <<fwdVars, annVars, storeVars, mapVars, sockVars>>

\* ------------------------------------------------------- clock and shutdown
Tick(d) ==
  /\ ticks < MaxTicks
  /\ now' = now + d
  /\ ticks' = ticks + 1
  /\ UNCHANGED <<stopping, stopDone, listenOpen, connections, connectedPeers,
                 lockedPeers, newPeers, phase, peerPub, outbound, connOpen,
                 nextSess, lsPc, lsSess, fpPc, fpNode, fpSess, adds, lost,
                 grants, dialLog>>
  /\ UNCHANGED <<fwdVars, annVars, storeVars, mapVars, sockVars>>

\* time.Now() is read by lockPeer alone: the time that passed since the
\* previous reading is accounted for when findPeers is about to read it
TickAtLock(d) == fpPc = "lock" /\ Tick(d)

\* the governor cancels the service context: ns.Stopping() becomes true
StopRequested ==
  /\ ~stopping
  /\ stopping' = TRUE
  /\ UNCHANGED <<stopDone, listenOpen, connections, connectedPeers,
                 lockedPeers, newPeers, phase, peerPub, outbound, connOpen,
                 nextSess, lsPc, lsSess, fpPc, fpNode, fpSess, now, ticks,
                 adds, lost, grants, dialLog>>
  /\ UNCHANGED <<fwdVars, annVars, storeVars, mapVars, sockVars>>

\* ns.Stop(): close the listeners, the local socket when ns.socket is set
\* (and remove its path), and every tracked connection
Stop ==
  /\ stopping /\ ~stopDone
  /\ stopDone' = TRUE
  /\ listenOpen' = FALSE
  /\ mutexIO' = mutexIO
       \cup (IF lsPc \in {"start", "none"} THEN {} ELSE {"listner.Close"})
       \cup (IF socket # "nil" THEN {"socket.Close", "os.Remove"} ELSE {})
       \cup (IF connections # <<>> THEN {"conn.Close"} ELSE {})
  /\ IF socket # "nil"
     THEN socket' = "closed" /\ sockFile' = FALSE
     ELSE UNCHANGED <<socket, sockFile>>
  /\ connOpen' = [s \in Sessions |->
                    IF PeerConn(s) \in Range(connections) THEN FALSE
                    ELSE connOpen[s]]
  /\ hconnOpen' = [h \in Handlers |->
                     IF HandConn(h) \in Range(connections) THEN FALSE
                     ELSE hconnOpen[h]]
  /\ UNCHANGED <<stopping, connections, connectedPeers, lockedPeers, newPeers,
                 phase, peerPub, outbound, nextSess, lsPc, lsSess, fpPc,
                 fpNode, fpSess, now, ticks, adds, lost, grants, dialLog>>
  /\ UNCHANGED <<fwdVars, annVars, storeVars, mapVars, hsPc, hsHand>>

\* ------------------------------------------------------------------- Init
\* netsvc.New: empty maps, an empty newPeers queue; Run has opened the listener
InitNet ==
  /\ stopping = FALSE /\ stopDone = FALSE /\ listenOpen = TRUE
  /\ connections = <<>>
  /\ connectedPeers = EmptyMap
  /\ lockedPeers = EmptyMap
  /\ newPeers = <<>>
  /\ phase = [s \in Sessions |-> "free"]
  /\ peerPub = [s \in Sessions |-> NoPubKey]
  /\ outbound = [s \in Sessions |-> FALSE]
  /\ connOpen = [s \in Sessions |-> FALSE]
  /\ nextSess = 0
  /\ lsPc = "accept" /\ lsSess = 0
  /\ fpPc = "choose" /\ fpNode = ZeroNodeInfo /\ fpSess = 0
  /\ now = 0 /\ ticks = 0 /\ adds = 0
  /\ lost = {} /\ grants = {} /\ dialLog = [k \in Keys \cup {NoPubKey} |-> <<>>]

InitFwd ==
  /\ sendq = [s \in Sessions |-> <<>>]
  /\ handlers = <<>>
  /\ hphase = [h \in Handlers |-> "free"]
  /\ hchan = [h \in Handlers |-> NoChannel]
  /\ hq = [h \in Handlers |-> <<>>]
  /\ recvCount = 0
  /\ rx = [s \in Sessions |-> <<>>]
  /\ rxFound = [s \in Sessions |-> FALSE]

\* netsvc.New fills nextAnnounce from the configuration; Run starts
\* updateAnnounce
InitAnn ==
  /\ nextAnnounce = [Time |-> 0, body |-> "public"]
  /\ encAnnounce = <<>>
  /\ annPc = "load"
  /\ annMsg = <<>>
  /\ annRemain = 0
  /\ timerAt = 0
  /\ addrChange = [made |-> FALSE, senders |-> <<>>]
  /\ annErr = FALSE
  /\ setLog = <<>>

\* no store operation is in progress
InitTxn ==
  /\ txOp = "none" /\ txPc = "idle" /\ txLimit = 0
  /\ txConn = "free" /\ txErr = "nil"

\* initConfig: INSERT INTO config (dayc,last) VALUES (1, unixDayStamp());
\* the node table is empty or holds rows stored by an earlier run
\* and the node table holds the peers K announced in an earlier run
InitTables(K) ==
  /\ today = 0
  /\ config = [dayc |-> 1, last |-> 0]
  /\ node = [k \in K |-> [oid |-> k,
                          payload |-> [time |-> 1, channels |-> <<"foo">>],
                          dayc |-> NetNodeDays + 1]]
  /\ chan = {<<k, "foo">> : k \in K}
  /\ core = EmptyMap
  /\ channels = EmptyMap
  /\ calls = 0
  /\ ret = [op |-> "none"]
  /\ InitTxn

InitStore(K) == InitTables(K) /\ announce = <<>>

\* NoMapKey: no address chosen yet
NoMapKey == ""

\* NewNetMap: an empty Nodes map, nil queues and sample
InitMap ==
  /\ Nodes = EmptyMap
  /\ NewNodes = <<>> /\ SeedNodes = <<>> /\ sample = <<>>
  /\ chosen = [n |-> 0, addr |-> NoMapKey, from |-> "none"]

\* Run has started acceptHandlers, which has not bound the socket yet
InitSock ==
  /\ socket = "nil" /\ sockFile = FALSE
  /\ hsPc = "start" /\ hsHand = 0
  /\ hconnOpen = [h \in Handlers |-> FALSE]
  /\ mutexIO = {"lc.Listen"}

\* acceptHandlers has bound the socket and waits in Accept
InitSockOpen ==
  /\ socket = "open" /\ sockFile = TRUE
  /\ hsPc = "accept" /\ hsHand = 0
  /\ hconnOpen = [h \in Handlers |-> FALSE]
  /\ mutexIO = {"lc.Listen"}

Init == InitNet /\ InitFwd /\ InitAnn /\ InitStore(Keys) /\ InitSock /\ InitMap

\* The listener has accepted and tracked MaxSessions inbound connections
\* (LsAccept, LsTrack); the first has declared and adopted key 1
\* (PeerHandshakeIn), the others have not declared a key yet.
InitNetAccepted ==
  /\ stopping = FALSE /\ stopDone = FALSE /\ listenOpen = TRUE
  /\ connections = [s \in Sessions |-> PeerConn(s)]
  /\ connectedPeers = [k \in {1} |-> 1]
  /\ lockedPeers = EmptyMap
  /\ newPeers = <<>>
  /\ phase = [s \in Sessions |-> IF s = 1 THEN "running" ELSE "handshake"]
  /\ peerPub = [s \in Sessions |-> IF s = 1 THEN 1 ELSE NoPubKey]
  /\ outbound = [s \in Sessions |-> FALSE]
  /\ connOpen = [s \in Sessions |-> TRUE]
  /\ nextSess = MaxSessions
  /\ lsPc = "accept" /\ lsSess = MaxSessions
  /\ fpPc = "choose" /\ fpNode = ZeroNodeInfo /\ fpSess = 0
  /\ now = 0 /\ ticks = 0 /\ adds = 0
  /\ lost = {} /\ grants = {<<1, 1>>}
  /\ dialLog = [k \in Keys \cup {NoPubKey} |-> <<>>]

\* ... and the first sessions have adopted the keys of Keys, one each
\* (PeerHandshakeIn); the others have not declared a key yet.
InitNetRunning ==
  /\ stopping = FALSE /\ stopDone = FALSE /\ listenOpen = TRUE
  /\ connections = [s \in Sessions |-> PeerConn(s)]
  /\ connectedPeers = [k \in Keys \cap Sessions |-> k]
  /\ lockedPeers = EmptyMap
  /\ newPeers = <<>>
  /\ phase = [s \in Sessions |-> IF s \in Keys THEN "running"
                                  ELSE "handshake"]
  /\ peerPub = [s \in Sessions |-> IF s \in Keys THEN s ELSE NoPubKey]
  /\ outbound = [s \in Sessions |-> FALSE]
  /\ connOpen = [s \in Sessions |-> TRUE]
  /\ nextSess = MaxSessions
  /\ lsPc = "accept" /\ lsSess = MaxSessions
  /\ fpPc = "choose" /\ fpNode = ZeroNodeInfo /\ fpSess = 0
  /\ now = 0 /\ ticks = 0 /\ adds = 0
  /\ lost = {} /\ grants = {<<k, k>> : k \in Keys \cap Sessions}
  /\ dialLog = [k \in Keys \cup {NoPubKey} |-> <<>>]

\* connections accepted, a store that knows one of the peers
InitGossip ==
  /\ InitNetAccepted /\ InitFwd /\ InitAnn /\ InitStore({1}) /\ InitSock
  /\ InitMap

\* peers connected
InitHandlers ==
  /\ InitNetRunning /\ InitFwd /\ InitAnn /\ InitStore(Keys) /\ InitSockOpen
  /\ InitMap

\* --------------------------------------------- the peer fabric (attract loop)
Next ==
  \/ LsAccept
  \/ LsAcceptFail
  \/ LsTrack
  \/ \E s \in Sessions, k \in Keys : PeerHandshakeIn(s, k)
  \/ \E s \in Sessions, k \in Keys : PeerHandshakeOut(s, k)
  \/ \E s \in Sessions : PeerClose(s)
  \/ FpChooseStore
  \/ FpStopping
  \/ FpHave
  \/ FpLock
  \/ FpDialOk
  \/ FpDialFail
  \/ FpTrack
  \/ StopRequested
  \/ Stop

Spec == Init /\ [][Next]_vars

\* ------------------------------------- the attract loop against the clock
NextLock ==
  \/ FpChooseStore
  \/ FpHave
  \/ FpLock
  \/ FpDialOk
  \/ FpDialFail
  \/ FpTrack
  \/ \E s \in Sessions, k \in Keys : PeerHandshakeOut(s, k)
  \/ \E s \in Sessions : PeerClose(s)
  \/ \E d \in TickSteps : TickAtLock(d)

SpecLock == Init /\ [][NextLock]_vars

\* --------------------------------------------- choosePeer, statement by
\* statement
\* choosePeer asking the store whatever the number of connected peers is
FpDefault_NoCount ==
  /\ fpPc = "choose" /\ lsPc # "start" /\ ~stopping /\ newPeers = <<>>
  /\ fpPc' = "sleep"
  /\ UNCHANGED <<fpRest, connections, connectedPeers, lockedPeers, newPeers,
                 fpNode, fpSess, lost, grants, dialLog>>
  /\ UNCHANGED <<fwdVars, annVars, storeVars, mapVars, sockVars>>

\* choosePeer: first select, default: with countPeers() < IdealPeers the task
\* goes on to ns.Sleep(time.Second) and the store; otherwise to the second
\* select
FpDefault ==
  /\ fpPc = "choose" /\ lsPc # "start" /\ ~stopping /\ newPeers = <<>>
  /\ fpPc' = IF countPeers < IdealPeers THEN "sleep" ELSE "wait"
  /\ UNCHANGED <<fpRest, connections, connectedPeers, lockedPeers, newPeers,
                 fpNode, fpSess, lost, grants, dialLog>>
  /\ UNCHANGED <<fwdVars, annVars, storeVars, mapVars, sockVars>>

\* choosePeer: after the sleep, np, err := ns.cstore.ChooseNetNode(); np is
\* returned, or on an error (NotFound on an empty table, or a database
\* error) the task goes on to the second select
FpQuery(ok) ==
  /\ fpPc = "sleep"
  /\ IF ok /\ ChooseNetNode # {}
     THEN /\ \E k \in ChooseNetNode : fpNode' = NodeInfo(k)
          /\ fpPc' = "have"
     ELSE /\ fpPc' = "wait"
          /\ UNCHANGED fpNode
  /\ UNCHANGED <<fpRest, connections, connectedPeers, lockedPeers, newPeers,
                 fpSess, lost, grants, dialLog>>
  /\ UNCHANGED <<fwdVars, annVars, storeVars, mapVars, sockVars>>

\* choosePeer: second select, case np := <-ns.newPeers
FpWaitNew ==
  /\ fpPc = "wait" /\ newPeers # <<>>
  /\ fpNode' = Head(newPeers)
  /\ newPeers' = Tail(newPeers)
  /\ fpPc' = "have"
  /\ UNCHANGED <<fpRest, connections, connectedPeers, lockedPeers, fpSess,
                 lost, grants, dialLog>>
  /\ UNCHANGED <<fwdVars, annVars, storeVars, mapVars, sockVars>>

\* choosePeer: second select, case <-time.After(30 * time.Second): continue
FpWaitTimeout ==
  /\ fpPc = "wait"
  /\ fpPc' = "choose"
  /\ UNCHANGED <<fpRest, connections, connectedPeers, lockedPeers, newPeers,
                 fpNode, fpSess, lost, grants, dialLog>>
  /\ UNCHANGED <<fwdVars, annVars, storeVars, mapVars, sockVars>>

\* peers that connected inbound before the run that is followed here, one
\* fewer than IdealPeers; their sessions are not followed
EarlierPeers == {10 + i : i \in 1..(IdealPeers - 1)}

\* the service is running with the EarlierPeers connected
InitChoose ==
  /\ stopping = FALSE /\ stopDone = FALSE /\ listenOpen = TRUE
  /\ connections = [i \in 1..(IdealPeers - 1) |-> PeerConn(10 + i)]
  /\ connectedPeers = [k \in EarlierPeers |-> k]
  /\ lockedPeers = EmptyMap
  /\ newPeers = <<>>
  /\ phase = [s \in Sessions |-> "free"]
  /\ peerPub = [s \in Sessions |-> NoPubKey]
  /\ outbound = [s \in Sessions |-> FALSE]
  /\ connOpen = [s \in Sessions |-> FALSE]
  /\ nextSess = 0
  /\ lsPc = "accept" /\ lsSess = 0
  /\ fpPc = "choose" /\ fpNode = ZeroNodeInfo /\ fpSess = 0
  /\ now = 0 /\ ticks = 0 /\ adds = 0
  /\ lost = {} /\ grants = {} /\ dialLog = [k \in Keys \cup {NoPubKey} |-> <<>>]
  /\ InitFwd /\ InitAnn /\ InitStore(Keys) /\ InitSock /\ InitMap

NextChoose ==
  \/ \E k \in Keys : AddPeer(NodeInfo(k))
  \/ FpChooseNew
  \/ FpDefault
  \/ \E ok \in BOOLEAN : FpQuery(ok)
  \/ FpWaitNew
  \/ FpWaitTimeout
  \/ FpHave
  \/ FpLock
  \/ FpDialOk
  \/ FpDialFail
  \/ FpTrack
  \/ LsAccept
  \/ LsTrack
  \/ \E s \in Sessions, k \in Keys : PeerHandshakeIn(s, k)
  \/ \E s \in Sessions : PeerClose(s)

SpecChoose == InitChoose /\ [][NextChoose]_vars

\* =================================================== forwarding primitives
Registered == Range(connectedPeers)

\* forwardToPeers on a queue that evicts its oldest message when full
forwardToPeers_Evict(msg) ==
  [u \in Sessions |->
     IF u \in Registered
     THEN IF Len(sendq[u]) < PeerQueueCap THEN Append(sendq[u], msg)
          ELSE Append(Tail(sendq[u]), msg)
     ELSE sendq[u]]

\* forwardToPeers: select { case peer.send <- msg: default: } for every
\* session of connectedPeers; the value is the new content of the queues
forwardToPeers(msg) ==
  [u \in Sessions |->
     IF u \in Registered /\ Len(sendq[u]) < PeerQueueCap
     THEN Append(sendq[u], msg)
     ELSE sendq[u]]

\* forwardToHandlers that reports found for a matching handler whose queue
\* is full
forwardToHandlers_FoundOnMatch(channel, msg) ==
  [found |-> \E h \in Range(handlers) : hchan[h] = channel,
   hq |-> [h \in Handlers |->
            IF /\ h \in Range(handlers) /\ hchan[h] = channel
               /\ Len(hq[h]) < HandlerQueueCap
            THEN Append(hq[h], msg)
            ELSE hq[h]]]

\* forwardToHandlers that puts the message at the head of the queue
forwardToHandlers_Prepend(channel, msg) ==
  [found |-> \E h \in Range(handlers) :
               hchan[h] = channel /\ Len(hq[h]) < HandlerQueueCap,
   hq |-> [h \in Handlers |->
            IF /\ h \in Range(handlers) /\ hchan[h] = channel
               /\ Len(hq[h]) < HandlerQueueCap
            THEN <<msg>> \o hq[h]
            ELSE hq[h]]]

\* forwardToHandlers: for every tracked handler listening on channel, a
\* non-blocking send of RawMessage{rawHdr, payload}; found = some send succeeded
forwardToHandlers(channel, msg) ==
  [found |-> \E h \in Range(handlers) :
               hchan[h] = channel /\ Len(hq[h]) < HandlerQueueCap,
   hq |-> [h \in Handlers |->
            IF /\ h \in Range(handlers) /\ hchan[h] = channel
               /\ Len(hq[h]) < HandlerQueueCap
            THEN Append(hq[h], msg)
            ELSE hq[h]]]

\* trackHandler(conn, hand)
trackHandler(conn, hand) ==
  IF stopping
  THEN [ok |-> FALSE, connections |-> connections, handlers |-> handlers]
  ELSE [ok |-> TRUE, connections |-> Append(connections, conn),
        handlers |-> Append(handlers, hand)]

\* closeHandler(hand)
closeHandler(hand) ==
  [connections |-> SwapRemove(connections, HandConn(hand)),
   handlers |-> SwapRemove(handlers, hand)]

\* ------------------------------------------------------------- AddNetNode
\* AddNetNode(key, ..., channels, payload, sig) in one transaction; ok = FALSE
\* is a transaction that fails and is rolled back
\* the rowid SQLite gives to a row inserted into node: one more than the
\* largest rowid in use
NextOid ==
  IF DOMAIN node = {} THEN 1
  ELSE 1 + CHOOSE m \in {node[k].oid : k \in DOMAIN node} :
             \A k \in DOMAIN node : node[k].oid <= m

\* a channel list that names a channel twice: the second INSERT INTO chan
\* violates PRIMARY KEY (node, chan)
HasDuplicates(list) == Cardinality(Range(list)) # Len(list)

AddNetNode(key, list, payload, ok) ==
  LET same == [changed |-> FALSE, node |-> node, chan |-> chan] IN
  IF ~ok THEN same @@ [err |-> TRUE]
  ELSE IF key \in DOMAIN node /\ node[key].payload = payload
  THEN same @@ [err |-> FALSE]
  ELSE IF HasDuplicates(list) THEN same @@ [err |-> TRUE]
  ELSE LET oid == IF key \in DOMAIN node THEN node[key].oid ELSE NextOid IN
       [changed |-> TRUE, err |-> FALSE,
        node |-> MapPut(node, key, [oid |-> oid, payload |-> payload,
                                    dayc |-> NetNodeDays + config.dayc]),
        chan |-> {x \in chan : x[1] # oid} \cup {<<oid, c>> : c \in Range(list)}]

\* messages as they travel: the frame (channel, signer, payload) and the
\* connection and arrival number it was decoded from
AddrMsg(s, k, p) ==
  [chan |-> ChannelNode, from |-> s, seq |-> 0, key |-> k, payload |-> p]
ChanMsg(s, c, n) ==
  [chan |-> c, from |-> s, seq |-> n, key |-> peerPub[s], payload |-> <<>>]

fabricRest == <<stopping, stopDone, listenOpen, lockedPeers, newPeers, phase,
                peerPub, outbound, connOpen, nextSess, lsPc, lsSess, fpPc,
                fpNode, fpSess, now, ticks, adds, lost, grants, dialLog>>

\* --------------------------------------------------- peer session, inbound
\* A running session decodes a node/Addr announcement of node k and upserts it
PeerRecvAddr(s, k, p, ok) ==
  /\ phase[s] = "running" /\ connOpen[s] /\ rx[s] = <<>>
  /\ recvCount < MaxAddrs
  /\ recvCount' = recvCount + 1
  /\ LET r == AddNetNode(k, p.channels, p, ok) IN
     /\ node' = r.node
     /\ chan' = r.chan
     /\ rx' = [rx EXCEPT ![s] = <<[msg |-> AddrMsg(s, k, p),
                                  changed |-> r.changed]>>]
  /\ UNCHANGED <<fabricRest, connections, connectedPeers>>
  /\ UNCHANGED <<sendq, handlers, hphase, hchan, hq, rxFound>>
  /\ UNCHANGED <<annVars, config, announce, core, channels, today, calls,
                 ret, txVars, mapVars, sockVars>>

\* ... and, if changed, re-broadcasts it with forwardToPeers
PeerFwdAddr(s) ==
  /\ rx[s] # <<>> /\ rx[s][1].msg.chan = ChannelNode
  /\ sendq' = IF rx[s][1].changed THEN forwardToPeers(rx[s][1].msg)
              ELSE sendq
  /\ rx' = [rx EXCEPT ![s] = <<>>]
  /\ UNCHANGED <<fabricRest, connections, connectedPeers>>
  /\ UNCHANGED <<handlers, hphase, hchan, hq, recvCount, rxFound>>
  /\ UNCHANGED <<annVars, storeVars, mapVars, sockVars>>

\* A running session decodes a message of another channel and hands it to
\* forwardToHandlers(channel, header, payload)
PeerRecvChan(s, c) ==
  /\ phase[s] = "running" /\ connOpen[s] /\ rx[s] = <<>>
  /\ recvCount < MaxMsgs
  /\ recvCount' = recvCount + 1
  /\ LET r == forwardToHandlers(c, ChanMsg(s, c, recvCount + 1)) IN
     /\ hq' = r.hq
     /\ rxFound' = [rxFound EXCEPT ![s] = r.found]
  /\ UNCHANGED <<fabricRest, connections, connectedPeers>>
  /\ UNCHANGED <<sendq, handlers, hphase, hchan, rx>>
  /\ UNCHANGED <<annVars, storeVars, mapVars, sockVars>>

\* The session's writer task takes the next message off peer.send
PeerSend(s) ==
  /\ phase[s] \in {"handshake", "running"} /\ sendq[s] # <<>>
  /\ sendq' = [sendq EXCEPT ![s] = Tail(@)]
  /\ UNCHANGED <<fabricRest, connections, connectedPeers>>
  /\ UNCHANGED <<handlers, hphase, hchan, hq, recvCount, rx, rxFound>>
  /\ UNCHANGED <<annVars, storeVars, mapVars, sockVars>>

\* --------------------------------------------------------- handler session
\* acceptHandlers: os.Remove(ProtocolSocket); ns.socket = net.Listen(...)
HsListen ==
  /\ hsPc = "start" /\ lsPc # "start"
  /\ socket' = "open" /\ sockFile' = TRUE
  /\ hsPc' = "loop"
  /\ UNCHANGED <<hsHand, hconnOpen, mutexIO>>
  /\ UNCHANGED <<netVars, fwdVars, annVars, storeVars, mapVars>>

\* acceptHandlers: net.Listen fails; the task returns
HsListenFail ==
  /\ hsPc = "start" /\ lsPc # "start"
  /\ sockFile' = FALSE
  /\ hsPc' = "exit"
  /\ UNCHANGED <<socket, hsHand, hconnOpen, mutexIO>>
  /\ UNCHANGED <<netVars, fwdVars, annVars, storeVars, mapVars>>

\* acceptHandlers: for !ns.Stopping()
HsLoop ==
  /\ hsPc = "loop"
  /\ hsPc' = IF stopping THEN "exit" ELSE "accept"
  /\ UNCHANGED <<socket, sockFile, hsHand, hconnOpen, mutexIO>>
  /\ UNCHANGED <<netVars, fwdVars, annVars, storeVars, mapVars>>

\* acceptHandlers: conn, err := ns.socket.Accept() returns a connection;
\* hand := newHandler(conn, ns)
HdAccept(h) ==
  /\ hsPc = "accept" /\ socket = "open"
  /\ hphase[h] = "free"
  /\ \A g \in Handlers : g < h => hphase[g] # "free"
  /\ hphase' = [hphase EXCEPT ![h] = "accepted"]
  /\ hconnOpen' = [hconnOpen EXCEPT ![h] = TRUE]
  /\ hsHand' = h
  /\ hsPc' = "track"
  /\ UNCHANGED <<socket, sockFile, mutexIO>>
  /\ UNCHANGED <<sendq, handlers, hchan, hq, recvCount, rx, rxFound>>
  /\ UNCHANGED <<netVars, annVars, storeVars, mapVars>>

\* acceptHandlers: Accept on the closed socket returns an error and
\* log.Fatal(err) ends the process, which closes every socket it holds
HsAcceptFatal ==
  /\ hsPc = "accept" /\ socket = "closed"
  /\ hsPc' = "fatal"
  /\ listenOpen' = FALSE
  /\ connOpen' = [s \in Sessions |-> FALSE]
  /\ hconnOpen' = [h \in Handlers |-> FALSE]
  /\ UNCHANGED <<socket, sockFile, hsHand, mutexIO>>
  /\ UNCHANGED <<stopping, stopDone, connections, connectedPeers,
                 lockedPeers, newPeers, phase, peerPub, outbound, nextSess,
                 lsPc, lsSess, fpPc, fpNode, fpSess, now, ticks, adds, lost,
                 grants, dialLog>>
  /\ UNCHANGED <<fwdVars, annVars, storeVars, mapVars>>

\* acceptHandlers: ns.trackHandler(conn, hand); hand.start(), or conn.Close()
\* and return when it is refused
HsTrack ==
  /\ hsPc = "track"
  /\ LET r == trackHandler(HandConn(hsHand), hsHand) IN
     /\ connections' = r.connections
     /\ handlers' = r.handlers
     /\ IF r.ok
        THEN /\ hphase' = [hphase EXCEPT ![hsHand] = "started"]
             /\ hsPc' = "loop"
             /\ UNCHANGED hconnOpen
        ELSE /\ hphase' = [hphase EXCEPT ![hsHand] = "dropped"]
             /\ hsPc' = "exit"
             /\ hconnOpen' = [hconnOpen EXCEPT ![hsHand] = FALSE]
  /\ UNCHANGED <<socket, sockFile, hsHand, mutexIO>>
  /\ UNCHANGED <<fabricRest, connectedPeers>>
  /\ UNCHANGED <<sendq, hchan, hq, recvCount, rx, rxFound>>
  /\ UNCHANGED <<annVars, storeVars, mapVars>>

\* The handler declares the channel it listens on: an atomic store to
\* hand.channel
HdSelect(h, c) ==
  /\ hphase[h] = "started" /\ hchan[h] = NoChannel
  /\ hchan' = [hchan EXCEPT ![h] = c]
  /\ UNCHANGED <<fabricRest, connections, connectedPeers>>
  /\ UNCHANGED <<sendq, handlers, hphase, hq, recvCount, rx, rxFound>>
  /\ UNCHANGED <<annVars, storeVars, mapVars, sockVars>>

\* The handler's writer task takes the next message off hand.send
HdDrain(h) ==
  /\ hphase[h] = "started" /\ hq[h] # <<>>
  /\ hq' = [hq EXCEPT ![h] = Tail(@)]
  /\ UNCHANGED <<fabricRest, connections, connectedPeers>>
  /\ UNCHANGED <<sendq, handlers, hphase, hchan, recvCount, rx, rxFound>>
  /\ UNCHANGED <<annVars, storeVars, mapVars, sockVars>>

\* Any I/O error on the handler's socket: ns.closeHandler(hand); the handler
\* and its send queue are dropped
HdClose(h) ==
  /\ hphase[h] = "started"
  /\ LET r == closeHandler(h) IN
     /\ connections' = r.connections
     /\ handlers' = r.handlers
  /\ hphase' = [hphase EXCEPT ![h] = "closed"]
  /\ hq' = [hq EXCEPT ![h] = <<>>]
  /\ hconnOpen' = [hconnOpen EXCEPT ![h] = FALSE]
  /\ UNCHANGED <<fabricRest, connectedPeers>>
  /\ UNCHANGED <<sendq, hchan, recvCount, rx, rxFound>>
  /\ UNCHANGED <<annVars, storeVars, mapVars, socket, sockFile, hsPc, hsHand,
                 mutexIO>>

\* ------------------------------------------ gossip between connected peers
NextGossip ==
  \/ \E s \in Sessions, k \in Keys : PeerHandshakeIn(s, k)
  \/ \E s \in Sessions : PeerClose(s)
  \/ \E s \in Sessions, k \in Keys, p \in AddrPayloads, ok \in BOOLEAN :
       PeerRecvAddr(s, k, p, ok)
  \/ \E s \in Sessions : PeerFwdAddr(s)
  \/ \E s \in Sessions : PeerSend(s)

SpecGossip == InitGossip /\ [][NextGossip]_vars

\* -------------------------------------------- delivery to local handlers
NextHandlers ==
  \/ HsLoop
  \/ HsTrack
  \/ \E s \in Sessions, c \in Channels : PeerRecvChan(s, c)
  \/ \E h \in Handlers : HdAccept(h)
  \/ \E h \in Handlers, c \in Channels : HdSelect(h, c)
  \/ \E h \in Handlers : HdDrain(h)
  \/ \E h \in Handlers : HdClose(h)

SpecHandlers == InitHandlers /\ [][NextHandlers]_vars

\* ======================================================= announcement loop
\* node.AddressMsg.Encode(): the payload carries the time stamp and the body
Encode(m) == [time |-> m.Time, body |-> m.body]

\* node.DecodeAddrMsg(payload)
DecodeAddrMsg(payload) == [Time |-> payload.time, body |-> payload.body]

\* the signature of the node key over a payload (dnet.EncodeMessage)
Signature(payload) == [signer |-> "nodeKey", over |-> payload]

\* dnet.EncodeMessage / dnet.ReEncodeMessage: header and payload
RawMessage(sig, payload) ==
  [Header |-> [chan |-> ChannelNode, tag |-> "Addr", sig |-> sig],
   Payload |-> payload]

\* SetAnnounce that inserts a row on every call
SetAnnounce_Insert(payload, sig, time) ==
  Append(announce, [payload |-> payload, sig |-> sig, time |-> time])

\* SQLiteStore.SetAnnounce: UPDATE announce SET ...; INSERT when no row
SetAnnounce(payload, sig, time) ==
  IF announce = <<>>
  THEN <<[payload |-> payload, sig |-> sig, time |-> time]>>
  ELSE [i \in DOMAIN announce |->
          [payload |-> payload, sig |-> sig, time |-> time]]

\* SQLiteStore.GetAnnounce: the first row, zero values when there is none
GetAnnounce ==
  IF announce = <<>> THEN [payload |-> <<>>, sig |-> <<>>, time |-> 0]
  ELSE announce[1]

\* generateAnnounce that stores the payload encoded before the time stamp
generateAnnounce_StoreUnstamped(newMsg, ok) ==
  LET stale == Encode(newMsg)
      payload == Encode([newMsg EXCEPT !.Time = now])
      sig == Signature(payload)
      expires == now + AnnounceLongevity IN
  [msg |-> RawMessage(sig, payload),
   remain |-> AnnounceLongevity,
   call |-> [payload |-> stale, sig |-> sig, time |-> expires, ok |-> ok],
   announce |-> IF ok THEN SetAnnounce(stale, sig, expires) ELSE announce]

\* generateAnnounce(newMsg): stamp, encode, sign, SetAnnounce; an error of
\* SetAnnounce (ok = FALSE) is logged and the message is returned all the same
generateAnnounce(newMsg, ok) ==
  LET payload == Encode([newMsg EXCEPT !.Time = now])
      sig == Signature(payload)
      expires == now + AnnounceLongevity IN
  [msg |-> RawMessage(sig, payload),
   remain |-> AnnounceLongevity,
   call |-> [payload |-> payload, sig |-> sig, time |-> expires, ok |-> ok],
   announce |-> IF ok THEN SetAnnounce(payload, sig, expires) ELSE announce]

\* loadOrGenerateAnnounce that compares the stored payload with the body
\* under its own Time
loadOrGenerateAnnounce_CompareTime(ok) ==
  LET old == GetAnnounce IN
  IF /\ ok /\ old.payload # <<>> /\ old.sig # <<>> /\ now < old.time
     /\ Encode(nextAnnounce) = old.payload
  THEN [reuse |-> TRUE, msg |-> RawMessage(old.sig, old.payload),
        remain |-> old.time - now]
  ELSE [reuse |-> FALSE, msg |-> annMsg, remain |-> annRemain]

\* loadOrGenerateAnnounce that does not look at the expiry
loadOrGenerateAnnounce_IgnoreExpiry(ok) ==
  LET old == GetAnnounce IN
  IF /\ ok /\ old.payload # <<>> /\ old.sig # <<>>
     /\ Encode([nextAnnounce EXCEPT
                  !.Time = DecodeAddrMsg(old.payload).Time]) = old.payload
  THEN [reuse |-> TRUE, msg |-> RawMessage(old.sig, old.payload),
        remain |-> old.time - now]
  ELSE [reuse |-> FALSE, msg |-> annMsg, remain |-> annRemain]

\* loadOrGenerateAnnounce, up to its return or its call of generateAnnounce:
\* the stored announcement is re-used when GetAnnounce succeeded (ok), the
\* payload and the signature are well-formed, it has not expired and it is
\* equal to nextAnnounce but for Time
loadOrGenerateAnnounce(ok) ==
  LET old == GetAnnounce IN
  IF /\ ok /\ old.payload # <<>> /\ old.sig # <<>> /\ now < old.time
     /\ Encode([nextAnnounce EXCEPT
                  !.Time = DecodeAddrMsg(old.payload).Time]) = old.payload
  THEN [reuse |-> TRUE, msg |-> RawMessage(old.sig, old.payload),
        remain |-> old.time - now]
  ELSE [reuse |-> FALSE, msg |-> annMsg, remain |-> annRemain]

AnnLoad(ok) ==
  /\ annPc = "load" /\ lsPc # "start"
  /\ annErr' = ~ok
  /\ LET r == loadOrGenerateAnnounce(ok) IN
     /\ annMsg' = r.msg
     /\ annRemain' = r.remain
     /\ annPc' = IF r.reuse THEN "set0" ELSE "gen0"
  /\ UNCHANGED <<nextAnnounce, encAnnounce, timerAt, addrChange, setLog>>
  /\ UNCHANGED <<netVars, fwdVars, storeVars, mapVars, sockVars>>

\* msg, remain := ns.generateAnnounce(ns.nextAnnounce)
AnnGenerate(ok) ==
  /\ annPc \in {"gen0", "gen"}
  /\ LET r == generateAnnounce(nextAnnounce, ok) IN
     /\ annMsg' = r.msg
     /\ annRemain' = r.remain
     /\ announce' = r.announce
     /\ setLog' = Append(setLog, r.call)
  /\ annPc' = IF annPc = "gen0" THEN "set0" ELSE "set"
  /\ UNCHANGED <<nextAnnounce, encAnnounce, timerAt, addrChange, annErr>>
  /\ UNCHANGED <<netVars, fwdVars, config, node, chan, core, channels,
                 today, calls, ret, txVars, mapVars, sockVars>>

\* ns.setAnnounce(msg); before the loop also timer := time.NewTimer(remain)
\* and the first test of ns.Stopping()
AnnSet ==
  /\ annPc \in {"set0", "set"}
  /\ encAnnounce' = annMsg
  /\ IF annPc = "set0"
     THEN /\ timerAt' = now + annRemain
          /\ annPc' = IF stopping THEN "done" ELSE "wait"
     ELSE /\ annPc' = "fwd"
          /\ UNCHANGED timerAt
  /\ UNCHANGED <<nextAnnounce, annMsg, annRemain, addrChange, annErr,
                 setLog>>
  /\ UNCHANGED <<netVars, fwdVars, storeVars, mapVars, sockVars>>

\* the loop broadcasting without timer.Reset(remain)
AnnForward_NoReset ==
  /\ annPc = "fwd"
  /\ sendq' = forwardToPeers(annMsg)
  /\ annPc' = IF stopping THEN "done" ELSE "wait"
  /\ UNCHANGED <<nextAnnounce, encAnnounce, annMsg, annRemain, addrChange,
                 annErr, setLog, timerAt>>
  /\ UNCHANGED <<handlers, hphase, hchan, hq, recvCount, rx, rxFound>>
  /\ UNCHANGED <<netVars, storeVars, mapVars, sockVars>>

\* ns.forwardToPeers(msg); timer.Reset(remain); back to the loop condition
AnnForward ==
  /\ annPc = "fwd"
  /\ sendq' = forwardToPeers(annMsg)
  /\ timerAt' = now + annRemain
  /\ annPc' = IF stopping THEN "done" ELSE "wait"
  /\ UNCHANGED <<nextAnnounce, encAnnounce, annMsg, annRemain, addrChange,
                 annErr, setLog>>
  /\ UNCHANGED <<handlers, hphase, hchan, hq, recvCount, rx, rxFound>>
  /\ UNCHANGED <<netVars, storeVars, mapVars, sockVars>>

\* case <-timer.C: the timer has expired
AnnTimer ==
  /\ annPc = "wait" /\ now >= timerAt
  /\ annPc' = "gen"
  /\ UNCHANGED <<nextAnnounce, encAnnounce, annMsg, annRemain, timerAt,
                 addrChange, annErr, setLog>>
  /\ UNCHANGED <<netVars, fwdVars, storeVars, mapVars, sockVars>>

\* case newMsg := <-ns.addrChange: ns.nextAnnounce = newMsg. A receive from a
\* nil channel never proceeds, and New does not make ns.addrChange.
AnnAddrChange ==
  /\ annPc = "wait" /\ addrChange.made /\ addrChange.senders # <<>>
  /\ nextAnnounce' = Head(addrChange.senders)
  /\ addrChange' = [addrChange EXCEPT !.senders = Tail(@)]
  /\ annPc' = "gen"
  /\ UNCHANGED <<encAnnounce, annMsg, annRemain, timerAt, annErr, setLog>>
  /\ UNCHANGED <<netVars, fwdVars, storeVars, mapVars, sockVars>>

\* case <-ns.Context.Done(): timer.Stop(); return
AnnDone ==
  /\ annPc = "wait" /\ stopping
  /\ annPc' = "done"
  /\ UNCHANGED <<nextAnnounce, encAnnounce, annMsg, annRemain, timerAt,
                 addrChange, annErr, setLog>>
  /\ UNCHANGED <<netVars, fwdVars, storeVars, mapVars, sockVars>>

\* time passes while updateAnnounce waits in its select
AnnTickSteps == {1, AnnounceLongevity}
TickAtWait(d) == annPc = "wait" /\ Tick(d)

\* the announce table as an earlier run left it: empty, or a row signed
\* before this run started
StoredAnnounces ==
  {<<>>} \cup
  {<<[payload |-> p, sig |-> Signature(p), time |-> e]>> :
     p \in {[time |-> -1, body |-> b] : b \in {"public", "moved"}},
     e \in {0, 2}} \cup
  {<<[payload |-> [time |-> -1, body |-> "public"], sig |-> <<>>,
      time |-> 2]>>}

InitAnnounce ==
  /\ InitNetRunning /\ InitFwd /\ InitAnn /\ InitTables(Keys) /\ InitSock
  /\ InitMap
  /\ announce \in StoredAnnounces

NextAnnounce ==
  \/ \E ok \in BOOLEAN : AnnLoad(ok)
  \/ \E ok \in BOOLEAN : AnnGenerate(ok)
  \/ AnnSet
  \/ AnnForward
  \/ AnnTimer
  \/ AnnDone
  \/ \E d \in AnnTickSteps : TickAtWait(d)
  \/ StopRequested
  \/ \E s \in Sessions : PeerSend(s)

SpecAnnounce == InitAnnounce /\ [][NextAnnounce]_vars

\* ns.addrChange <- body by a task that changed the node's address or
\* channels: the sender blocks until updateAnnounce receives
SubmitAddrChange(b) ==
  /\ ~stopping
  /\ \A i \in DOMAIN addrChange.senders : addrChange.senders[i] # b
  /\ addrChange' = [addrChange EXCEPT !.senders = Append(@, b)]
  /\ UNCHANGED <<nextAnnounce, encAnnounce, annPc, annMsg, annRemain,
                 timerAt, annErr, setLog>>
  /\ UNCHANGED <<netVars, fwdVars, storeVars, mapVars, sockVars>>

NewBodies == {[Time |-> 0, body |-> "moved"]}

NextRegossip ==
  \/ NextAnnounce
  \/ \E b \in NewBodies : SubmitAddrChange(b)

SpecRegossip == InitAnnounce /\ [][NextRegossip]_vars

\* ---------------------------------------------------------------- shutdown
\* the accepting and dialing tasks against StopRequested and Stop
NextShutdown ==
  \/ \E ok \in BOOLEAN : LsListen(ok)
  \/ LsAccept
  \/ LsAcceptFail
  \/ LsTrack
  \/ FpChooseStore
  \/ FpStopping
  \/ FpHave
  \/ FpLock
  \/ FpDialOk
  \/ FpDialFail
  \/ FpTrack
  \/ HsListen
  \/ HsListenFail
  \/ HsLoop
  \/ \E h \in Handlers : HdAccept(h)
  \/ HsAcceptFatal
  \/ HsTrack
  \/ StopRequested
  \/ Stop

\* netsvc.New has returned and Run is about to call startListeners: no
\* listener, no task started
InitRun ==
  /\ stopping = FALSE /\ stopDone = FALSE /\ listenOpen = FALSE
  /\ connections = <<>>
  /\ connectedPeers = EmptyMap
  /\ lockedPeers = EmptyMap
  /\ newPeers = <<>>
  /\ phase = [s \in Sessions |-> "free"]
  /\ peerPub = [s \in Sessions |-> NoPubKey]
  /\ outbound = [s \in Sessions |-> FALSE]
  /\ connOpen = [s \in Sessions |-> FALSE]
  /\ nextSess = 0
  /\ lsPc = "start" /\ lsSess = 0
  /\ fpPc = "choose" /\ fpNode = ZeroNodeInfo /\ fpSess = 0
  /\ now = 0 /\ ticks = 0 /\ adds = 0
  /\ lost = {} /\ grants = {}
  /\ dialLog = [k \in Keys \cup {NoPubKey} |-> <<>>]
  /\ socket = "nil" /\ sockFile = FALSE
  /\ hsPc = "start" /\ hsHand = 0
  /\ hconnOpen = [h \in Handlers |-> FALSE]
  /\ mutexIO = {}
  /\ InitFwd /\ InitAnn /\ InitStore(Keys) /\ InitMap

SpecShutdown == InitRun /\ [][NextShutdown]_vars

\* ---------------------------------------------------- the tasks Run starts
\* Run: startListeners (which starts acceptIncoming), then findPeers and
\* updateAnnounce as tasks of their own, with the sessions they start
NextRun ==
  \/ \E ok \in BOOLEAN : LsListen(ok)
  \/ LsAccept
  \/ LsTrack
  \/ FpChooseStore
  \/ FpHave
  \/ FpLock
  \/ FpDialOk
  \/ FpDialFail
  \/ FpTrack
  \/ \E s \in Sessions, k \in Keys : PeerHandshakeIn(s, k)
  \/ \E s \in Sessions, k \in Keys : PeerHandshakeOut(s, k)
  \/ \E s \in Sessions : PeerClose(s)
  \/ \E ok \in BOOLEAN : AnnLoad(ok)
  \/ \E ok \in BOOLEAN : AnnGenerate(ok)
  \/ AnnSet

SpecRun == InitRun /\ [][NextRun]_vars

\* ==================================================================== doTxn
\* store operations, and those whose closure returns the error of the driver
\* as it is (the others wrap it with fmt.Errorf, which IsConflict does not
\* look through)
TxOps == {"SetAnnounce", "AddChannel", "TrimNodes", "AddNetNode"}
RawErrors(op) == op \in {"SetAnnounce", "AddChannel"}
TxOutcomes == {"ok", "conflict", "error"}
tablesAndCalls == <<config, node, chan, announce, core, channels, today,
                    calls, ret>>

\* a store operation calls doTxn: limit := 120
TxCall(op) ==
  /\ txPc = "idle"
  /\ txOp' = op /\ txLimit' = TxnLimit /\ txPc' = "begin" /\ txErr' = "nil"
  /\ UNCHANGED <<txConn, tablesAndCalls, mapVars, netVars, fwdVars, annVars, sockVars>>

\* after a conflict: Sleep, limit--, continue unless limit is 0
TxRetry(next) ==
  /\ txLimit' = txLimit - 1
  /\ IF txLimit - 1 # 0
     THEN txPc' = next /\ txErr' = "nil"
     ELSE txPc' = "return" /\ txErr' = "conflict"

\* tx, err := s.db.Begin(): waits for the connection of the pool
TxBegin(res) ==
  /\ txPc = "begin" /\ txConn = "free"
  /\ CASE res = "ok" -> /\ txConn' = "held" /\ txPc' = "work"
                        /\ UNCHANGED <<txLimit, txErr>>
       [] res = "conflict" -> TxRetry("begin") /\ UNCHANGED txConn
       [] res = "error" -> /\ txPc' = "return" /\ txErr' = "error"
                           /\ UNCHANGED <<txLimit, txConn>>
  /\ UNCHANGED <<txOp, tablesAndCalls, mapVars, netVars, fwdVars, annVars, sockVars>>

\* defer tx.Rollback(); err = work(tx): the transaction keeps the connection
\* until it is committed or rolled back, and the rollback is deferred to the
\* return of doTxn
TxWork(res) ==
  /\ txPc = "work"
  /\ CASE res = "ok" -> txPc' = "commit" /\ UNCHANGED <<txLimit, txErr>>
       [] res = "conflict" /\ RawErrors(txOp) -> TxRetry("begin")
       [] OTHER -> txPc' = "return" /\ txErr' = "error" /\ UNCHANGED txLimit
  /\ UNCHANGED <<txOp, txConn, tablesAndCalls, mapVars, netVars, fwdVars, annVars,
                 sockVars>>

\* err = tx.Commit(): the transaction is finished whatever the result
TxCommit(res) ==
  /\ txPc = "commit"
  /\ txConn' = "free"
  /\ CASE res = "ok" -> txPc' = "return" /\ UNCHANGED <<txLimit, txErr>>
       [] res = "conflict" -> TxRetry("begin")
       [] res = "error" -> /\ txPc' = "return" /\ txErr' = "error"
                           /\ UNCHANGED txLimit
  /\ UNCHANGED <<txOp, tablesAndCalls, mapVars, netVars, fwdVars, annVars, sockVars>>

\* doTxn returns: the deferred rollbacks run
TxReturn ==
  /\ txPc = "return"
  /\ txPc' = "idle" /\ txConn' = "free"
  /\ UNCHANGED <<txOp, txLimit, txErr, tablesAndCalls, mapVars, netVars, fwdVars,
                 annVars, sockVars>>

NextTxn ==
  \/ \E op \in TxOps : TxCall(op)
  \/ \E res \in TxOutcomes : TxBegin(res)
  \/ \E res \in TxOutcomes : TxWork(res)
  \/ \E res \in TxOutcomes : TxCommit(res)
  \/ TxReturn

SpecTxn == Init /\ [][NextTxn]_vars

\* =================================================================== store
\* core node addresses, the lifetimes and services the crawler passes, and
\* the announcements of overlay peers (channel list in payload order)
Addrs == {1, 2}
NoAddr == 0
RemainDays == {1, MaxCoreNodeDays}
CoreServices == {9}
StorePayloads == AddrPayloads \cup {[time |-> 3, channels |-> <<"foo", "foo">>],
                                   [time |-> 4, channels |-> <<>>]}

\* the rows of table m (map key -> row with field dayc) that `DELETE FROM
\* ... WHERE dayc < ?` keeps
KeepRows(m, dayc) == [k \in {x \in DOMAIN m : m[x].dayc >= dayc} |-> m[k]]

\* ---------------------------------------------------------------- TrimNodes
\* the statements of TrimNodes at which the transaction can fail
TrimFailures == {"none", "select", "update", "core", "node", "channels",
                 "commit"}

\* TrimNodes taking every call for the first of a new day
TrimNodes_IgnoreLast(day, fail) ==
  LET dayc == config.dayc + 1
      keepCore == KeepRows(core, dayc)
      keepNode == KeepRows(node, dayc)
      keepChan == [c \in {x \in DOMAIN channels : channels[x] >= dayc}
                     |-> channels[c]]
      remCore == Cardinality(DOMAIN core) - Cardinality(DOMAIN keepCore)
      remNode == Cardinality(DOMAIN node) - Cardinality(DOMAIN keepNode)
      remChan == Cardinality(DOMAIN channels) - Cardinality(DOMAIN keepChan)
      same == [config |-> config, core |-> core, node |-> node,
               channels |-> channels]
  IN IF fail = "select"
     THEN same @@ [advanced |-> FALSE, remCore |-> 0, remNode |-> 0,
                   err |-> TRUE]
     ELSE IF FALSE
     THEN same @@ [advanced |-> FALSE, remCore |-> 0, remNode |-> 0,
                   err |-> fail = "commit"]
     ELSE IF fail \in {"update", "core"}
     THEN same @@ [advanced |-> TRUE, remCore |-> 0, remNode |-> 0,
                   err |-> TRUE]
     ELSE IF fail = "node"
     THEN same @@ [advanced |-> TRUE, remCore |-> remCore, remNode |-> 0,
                   err |-> TRUE]
     ELSE IF fail = "channels"
     THEN same @@ [advanced |-> TRUE, remCore |-> remCore,
                   remNode |-> remNode, err |-> TRUE]
     ELSE IF fail = "commit"
     THEN same @@ [advanced |-> TRUE, remCore |-> remCore,
                   remNode |-> remChan, err |-> TRUE]
     ELSE [advanced |-> TRUE, remCore |-> remCore, remNode |-> remChan,
           err |-> FALSE, config |-> [dayc |-> dayc, last |-> day],
           core |-> keepCore, node |-> keepNode, channels |-> keepChan]

\* TrimNodes adding the days elapsed since last to the day counter
TrimNodes_AddElapsed(day, fail) ==
  LET dayc == config.dayc + (day - config.last)
      keepCore == KeepRows(core, dayc)
      keepNode == KeepRows(node, dayc)
      keepChan == [c \in {x \in DOMAIN channels : channels[x] >= dayc}
                     |-> channels[c]]
      remCore == Cardinality(DOMAIN core) - Cardinality(DOMAIN keepCore)
      remNode == Cardinality(DOMAIN node) - Cardinality(DOMAIN keepNode)
      remChan == Cardinality(DOMAIN channels) - Cardinality(DOMAIN keepChan)
      same == [config |-> config, core |-> core, node |-> node,
               channels |-> channels]
  IN IF fail = "select"
     THEN same @@ [advanced |-> FALSE, remCore |-> 0, remNode |-> 0,
                   err |-> TRUE]
     ELSE IF config.last = day
     THEN same @@ [advanced |-> FALSE, remCore |-> 0, remNode |-> 0,
                   err |-> fail = "commit"]
     ELSE IF fail \in {"update", "core"}
     THEN same @@ [advanced |-> TRUE, remCore |-> 0, remNode |-> 0,
                   err |-> TRUE]
     ELSE IF fail = "node"
     THEN same @@ [advanced |-> TRUE, remCore |-> remCore, remNode |-> 0,
                   err |-> TRUE]
     ELSE IF fail = "channels"
     THEN same @@ [advanced |-> TRUE, remCore |-> remCore,
                   remNode |-> remNode, err |-> TRUE]
     ELSE IF fail = "commit"
     THEN same @@ [advanced |-> TRUE, remCore |-> remCore,
                   remNode |-> remChan, err |-> TRUE]
     ELSE [advanced |-> TRUE, remCore |-> remCore, remNode |-> remChan,
           err |-> FALSE, config |-> [dayc |-> dayc, last |-> day],
           core |-> keepCore, node |-> keepNode, channels |-> keepChan]

\* TrimNodes comparing the expiry of channels with the counter before the advance
TrimNodes_OldCounter(day, fail) ==
  LET dayc == config.dayc + 1
      keepCore == KeepRows(core, dayc)
      keepNode == KeepRows(node, dayc)
      keepChan == [c \in {x \in DOMAIN channels : channels[x] >= config.dayc}
                     |-> channels[c]]
      remCore == Cardinality(DOMAIN core) - Cardinality(DOMAIN keepCore)
      remNode == Cardinality(DOMAIN node) - Cardinality(DOMAIN keepNode)
      remChan == Cardinality(DOMAIN channels) - Cardinality(DOMAIN keepChan)
      same == [config |-> config, core |-> core, node |-> node,
               channels |-> channels]
  IN IF fail = "select"
     THEN same @@ [advanced |-> FALSE, remCore |-> 0, remNode |-> 0,
                   err |-> TRUE]
     ELSE IF config.last = day
     THEN same @@ [advanced |-> FALSE, remCore |-> 0, remNode |-> 0,
                   err |-> fail = "commit"]
     ELSE IF fail \in {"update", "core"}
     THEN same @@ [advanced |-> TRUE, remCore |-> 0, remNode |-> 0,
                   err |-> TRUE]
     ELSE IF fail = "node"
     THEN same @@ [advanced |-> TRUE, remCore |-> remCore, remNode |-> 0,
                   err |-> TRUE]
     ELSE IF fail = "channels"
     THEN same @@ [advanced |-> TRUE, remCore |-> remCore,
                   remNode |-> remNode, err |-> TRUE]
     ELSE IF fail = "commit"
     THEN same @@ [advanced |-> TRUE, remCore |-> remCore,
                   remNode |-> remChan, err |-> TRUE]
     ELSE [advanced |-> TRUE, remCore |-> remCore, remNode |-> remChan,
           err |-> FALSE, config |-> [dayc |-> dayc, last |-> day],
           core |-> keepCore, node |-> keepNode, channels |-> keepChan]

\* TrimNodes keeping what it wrote before DELETE FROM node failed
TrimNodes_NoRollback(day, fail) ==
  LET dayc == config.dayc + 1
      keepCore == KeepRows(core, dayc)
      keepNode == KeepRows(node, dayc)
      keepChan == [c \in {x \in DOMAIN channels : channels[x] >= dayc}
                     |-> channels[c]]
      remCore == Cardinality(DOMAIN core) - Cardinality(DOMAIN keepCore)
      remNode == Cardinality(DOMAIN node) - Cardinality(DOMAIN keepNode)
      remChan == Cardinality(DOMAIN channels) - Cardinality(DOMAIN keepChan)
      same == [config |-> config, core |-> core, node |-> node,
               channels |-> channels]
  IN IF fail = "select"
     THEN same @@ [advanced |-> FALSE, remCore |-> 0, remNode |-> 0,
                   err |-> TRUE]
     ELSE IF config.last = day
     THEN same @@ [advanced |-> FALSE, remCore |-> 0, remNode |-> 0,
                   err |-> fail = "commit"]
     ELSE IF fail \in {"update", "core"}
     THEN same @@ [advanced |-> TRUE, remCore |-> 0, remNode |-> 0,
                   err |-> TRUE]
     ELSE IF fail = "node"
     THEN [config |-> [dayc |-> dayc, last |-> day], core |-> keepCore,
           node |-> node, channels |-> channels]
          @@ [advanced |-> TRUE, remCore |-> remCore, remNode |-> 0,
                   err |-> TRUE]
     ELSE IF fail = "channels"
     THEN same @@ [advanced |-> TRUE, remCore |-> remCore,
                   remNode |-> remNode, err |-> TRUE]
     ELSE IF fail = "commit"
     THEN same @@ [advanced |-> TRUE, remCore |-> remCore,
                   remNode |-> remChan, err |-> TRUE]
     ELSE [advanced |-> TRUE, remCore |-> remCore, remNode |-> remChan,
           err |-> FALSE, config |-> [dayc |-> dayc, last |-> day],
           core |-> keepCore, node |-> keepNode, channels |-> keepChan]

\* TrimNodes() on calendar day `day`, in one transaction; fail names the
\* statement that fails (the transaction is then rolled back, and the named
\* results keep what was assigned before the failure).  The chan table is not
\* touched.
TrimNodes(day, fail) ==
  LET dayc == config.dayc + 1
      keepCore == KeepRows(core, dayc)
      keepNode == KeepRows(node, dayc)
      keepChan == [c \in {x \in DOMAIN channels : channels[x] >= dayc}
                     |-> channels[c]]
      remCore == Cardinality(DOMAIN core) - Cardinality(DOMAIN keepCore)
      remNode == Cardinality(DOMAIN node) - Cardinality(DOMAIN keepNode)
      remChan == Cardinality(DOMAIN channels) - Cardinality(DOMAIN keepChan)
      same == [config |-> config, core |-> core, node |-> node,
               channels |-> channels]
  IN IF fail = "select"
     THEN same @@ [advanced |-> FALSE, remCore |-> 0, remNode |-> 0,
                   err |-> TRUE]
     ELSE IF config.last = day
     THEN same @@ [advanced |-> FALSE, remCore |-> 0, remNode |-> 0,
                   err |-> fail = "commit"]
     ELSE IF fail \in {"update", "core"}
     THEN same @@ [advanced |-> TRUE, remCore |-> 0, remNode |-> 0,
                   err |-> TRUE]
     ELSE IF fail = "node"
     THEN same @@ [advanced |-> TRUE, remCore |-> remCore, remNode |-> 0,
                   err |-> TRUE]
     ELSE IF fail = "channels"
     THEN same @@ [advanced |-> TRUE, remCore |-> remCore,
                   remNode |-> remNode, err |-> TRUE]
     ELSE IF fail = "commit"
     THEN same @@ [advanced |-> TRUE, remCore |-> remCore,
                   remNode |-> remChan, err |-> TRUE]
     ELSE [advanced |-> TRUE, remCore |-> remCore, remNode |-> remChan,
           err |-> FALSE, config |-> [dayc |-> dayc, last |-> day],
           core |-> keepCore, node |-> keepNode, channels |-> keepChan]

\* -------------------------------------------------------------- AddCoreNode
\* AddCoreNode overwrites the expiry of an existing row
AddCoreNode_Overwrite(address, time, remainDays, services, ok) ==
  IF ~ok THEN [err |-> TRUE, core |-> core]
  ELSE [err |-> FALSE,
        core |-> MapPut(core, address,
                   [time |-> time, services |-> services,
                    isnew |-> IF address \in DOMAIN core
                              THEN core[address].isnew ELSE TRUE,
                    dayc |-> remainDays + config.dayc])]

\* AddCoreNode leaves the services of an existing row as they were
AddCoreNode_KeepServices(address, time, remainDays, services, ok) ==
  IF ~ok THEN [err |-> TRUE, core |-> core]
  ELSE IF address \in DOMAIN core
  THEN LET old == core[address]
           new == remainDays + config.dayc
       IN [err |-> FALSE,
           core |-> MapPut(core, address,
                      [time |-> time, services |-> old.services,
                       isnew |-> old.isnew,
                       dayc |-> IF old.dayc >= new THEN old.dayc ELSE new])]
  ELSE [err |-> FALSE,
        core |-> MapPut(core, address,
                   [time |-> time, services |-> services, isnew |-> TRUE,
                    dayc |-> remainDays + config.dayc])]

\* AddCoreNode(address, unixTimeSec, remainDays, services)
AddCoreNode(address, time, remainDays, services, ok) ==
  IF ~ok THEN [err |-> TRUE, core |-> core]
  ELSE IF address \in DOMAIN core
  THEN LET old == core[address]
           new == remainDays + config.dayc
       IN [err |-> FALSE,
           core |-> MapPut(core, address,
                      [time |-> time, services |-> services,
                       isnew |-> old.isnew,
                       dayc |-> IF old.dayc >= new THEN old.dayc ELSE new])]
  ELSE [err |-> FALSE,
        core |-> MapPut(core, address,
                   [time |-> time, services |-> services, isnew |-> TRUE,
                    dayc |-> remainDays + config.dayc])]

\* UpdateCoreTime(address)
UpdateCoreTime(address, time, ok) ==
  IF ok /\ address \in DOMAIN core
  THEN [err |-> FALSE,
        core |-> MapPut(core, address,
                   [core[address] EXCEPT !.time = time,
                                         !.dayc = MaxCoreNodeDays + config.dayc])]
  ELSE [err |-> ~ok, core |-> core]

\* ChooseCoreNode(): the results it can return.  A query that finds no row
\* with isnew=TRUE falls back to the rows with isnew=FALSE; if that finds no
\* row either, the sql.ErrNoRows is formatted into a plain error.
ChooseCoreNode(ok) ==
  LET fresh == {a \in DOMAIN core : core[a].isnew}
      other == {a \in DOMAIN core : ~core[a].isnew}
  IN IF ~ok THEN {[addr |-> NoAddr, err |-> "error"]}
     ELSE IF fresh # {} THEN {[addr |-> a, err |-> "nil"] : a \in fresh}
     ELSE IF other # {} THEN {[addr |-> a, err |-> "nil"] : a \in other}
     ELSE {[addr |-> NoAddr, err |-> "error"]}

\* ------------------------------------------------ UpdateNetTime, AddChannel
\* UpdateNetTime(key)
UpdateNetTime(key, ok) ==
  IF ok /\ key \in DOMAIN node
  THEN [err |-> FALSE,
        node |-> MapPut(node, key,
                   [node[key] EXCEPT !.dayc = NetNodeDays + config.dayc])]
  ELSE [err |-> ~ok, node |-> node]

\* AddChannel(channel)
AddChannel(channel, ok) ==
  IF ok THEN [err |-> FALSE,
              channels |-> MapPut(channels, channel, ChannelDays + config.dayc)]
  ELSE [err |-> TRUE, channels |-> channels]

\* ------------------------------------------------------------- store calls
otherVars == <<netVars, fwdVars, annVars, sockVars, announce, txVars,
               mapVars>>

\* the system clock passes midnight n times
DayPasses(n) ==
  /\ today + n <= MaxToday
  /\ today' = today + n
  /\ UNCHANGED <<config, node, chan, core, channels, calls, ret, otherVars>>

\* StoreTrimmer.Run: store.TrimNodes()
CallTrimNodes(fail) ==
  /\ calls < MaxCalls /\ calls' = calls + 1
  /\ LET r == TrimNodes(today, fail) IN
     /\ config' = r.config /\ core' = r.core /\ node' = r.node
     /\ channels' = r.channels
     /\ ret' = [op |-> "TrimNodes", advanced |-> r.advanced,
                remCore |-> r.remCore, remNode |-> r.remNode, err |-> r.err]
  /\ UNCHANGED <<chan, today, otherVars>>

\* the crawler: AddCoreNode(addr, now, remainDays, services)
CallAddCoreNode(a, remainDays, services, ok) ==
  /\ calls < MaxCalls /\ calls' = calls + 1
  /\ LET r == AddCoreNode(a, today, remainDays, services, ok) IN
     /\ core' = r.core
     /\ ret' = [op |-> "AddCoreNode", addr |-> a, remain |-> remainDays,
                services |-> services, err |-> r.err]
  /\ UNCHANGED <<config, node, chan, channels, today, otherVars>>

\* the crawler: UpdateCoreTime(addr)
CallUpdateCoreTime(a, ok) ==
  /\ calls < MaxCalls /\ calls' = calls + 1
  /\ LET r == UpdateCoreTime(a, today, ok) IN
     /\ core' = r.core
     /\ ret' = [op |-> "UpdateCoreTime", addr |-> a, err |-> r.err]
  /\ UNCHANGED <<config, node, chan, channels, today, otherVars>>

\* the crawler: ChooseCoreNode(); dbOk records that the database ran the
\* queries
CallChooseCoreNode(ok) ==
  /\ calls < MaxCalls /\ calls' = calls + 1
  /\ \E r \in ChooseCoreNode(ok) :
       ret' = [op |-> "ChooseCoreNode", addr |-> r.addr, err |-> r.err,
               dbOk |-> ok]
  /\ UNCHANGED <<config, node, chan, core, channels, today, otherVars>>

\* a peer session: AddNetNode(key, ..., channels, payload, sig); dbOk records
\* that the database itself did not fail
CallAddNetNode(k, p, ok) ==
  /\ calls < MaxCalls /\ calls' = calls + 1
  /\ LET r == AddNetNode(k, p.channels, p, ok) IN
     /\ node' = r.node /\ chan' = r.chan
     /\ ret' = [op |-> "AddNetNode", key |-> k, payload |-> p,
                changed |-> r.changed, err |-> r.err, dbOk |-> ok]
  /\ UNCHANGED <<config, core, channels, today, otherVars>>

\* a peer session: UpdateNetTime(key)
CallUpdateNetTime(k, ok) ==
  /\ calls < MaxCalls /\ calls' = calls + 1
  /\ LET r == UpdateNetTime(k, ok) IN
     /\ node' = r.node
     /\ ret' = [op |-> "UpdateNetTime", key |-> k, err |-> r.err]
  /\ UNCHANGED <<config, chan, core, channels, today, otherVars>>

\* a handler session: AddChannel(channel)
CallAddChannel(c, ok) ==
  /\ calls < MaxCalls /\ calls' = calls + 1
  /\ LET r == AddChannel(c, ok) IN
     /\ channels' = r.channels
     /\ ret' = [op |-> "AddChannel", chan |-> c, err |-> r.err]
  /\ UNCHANGED <<config, node, chan, core, today, otherVars>>

\* The store after NetNodeDays days of service: the day counter has advanced
\* NetNodeDays times; overlay peer 1 was stored on the first day and peer 2
\* on the second, channel "foo" was declared ChannelDays days ago, and the
\* crawler stored core node 1 MaxCoreNodeDays days ago.
InitStoreAged ==
  /\ today = 0
  /\ config = [dayc |-> NetNodeDays + 1, last |-> 0]
  /\ node = [k \in Keys |-> [oid |-> k,
                             payload |-> [time |-> 1, channels |-> <<"foo">>],
                             dayc |-> NetNodeDays + k]]
  /\ chan = {<<k, "foo">> : k \in Keys}
  /\ core = [a \in {1} |-> [time |-> 0 - MaxCoreNodeDays, services |-> 1,
                            isnew |-> TRUE, dayc |-> NetNodeDays + 1]]
  /\ channels = [c \in {"foo"} |-> NetNodeDays + 1]
  /\ calls = 0
  /\ ret = [op |-> "none"]
  /\ InitTxn
  /\ announce = <<>>

InitStoreSpec ==
  InitNet /\ InitFwd /\ InitAnn /\ InitSock /\ InitStoreAged /\ InitMap

NextStore ==
  \/ \E n \in 1..MaxToday : DayPasses(n)
  \/ \E fail \in TrimFailures : CallTrimNodes(fail)
  \/ \E a \in Addrs, d \in RemainDays, sv \in CoreServices, ok \in BOOLEAN :
       CallAddCoreNode(a, d, sv, ok)
  \/ \E a \in Addrs, ok \in BOOLEAN : CallUpdateCoreTime(a, ok)
  \/ \E ok \in BOOLEAN : CallChooseCoreNode(ok)
  \/ \E k \in Keys, p \in StorePayloads, ok \in BOOLEAN : CallAddNetNode(k, p, ok)
  \/ \E k \in Keys, ok \in BOOLEAN : CallUpdateNetTime(k, ok)
  \/ \E c \in Channels, ok \in BOOLEAN : CallAddChannel(c, ok)

SpecStore == InitStoreSpec /\ [][NextStore]_vars

\* ================================================================== NetMap
\* node addresses ("ip/port" keys), the times AddNode passes, and the fixed
\* seed addresses of package seeds
MapKeys == {"a", "b"}
MapTimes == {1, 2}
FixedSeeds == <<"s", "t">>
MaxQueue == 2
MaxChoose == 3
MaxLoop == 3

\* number of entries of the queue arr that are equal to x
Count(arr, x) == Cardinality({i \in DOMAIN arr : arr[i] = x})

\* pluckRandom that cuts the last element off without copying it down
pluckRandom_DropLast(arr) ==
  {[arr |-> SubSeq(arr, 1, Len(arr) - 1), val |-> arr[idx]] :
     idx \in 1..Len(arr)}

\* pluckRandom(arr): idx := rand.Intn(len); val := arr[idx];
\* arr[idx] = arr[len-1]; arr = arr[:len-1]
pluckRandom(arr) ==
  {[arr |-> SubSeq([arr EXCEPT ![idx] = arr[Len(arr)]], 1, Len(arr) - 1),
    val |-> arr[idx]] : idx \in 1..Len(arr)}

\* the orders in which range can visit the keys of a map
RECURSIVE Perms(_)
Perms(S) ==
  IF S = {} THEN {<<>>}
  ELSE UNION {{<<x>> \o p : p \in Perms(S \ {x})} : x \in S}

\* the loop of sampleNodeMap from index idx (counted from 0) with the next
\* sample index samp: the keys it appends
RECURSIVE SampleWalk(_, _, _, _)
SampleWalk(order, idx, samp, mod) ==
  IF idx >= Len(order) THEN {<<>>}
  ELSE IF idx >= samp
  THEN UNION {{<<order[idx + 1]>> \o w :
                 w \in SampleWalk(order, idx + 1, idx + 1 + d, mod)} :
              d \in 0..(mod - 1)}
  ELSE SampleWalk(order, idx + 1, samp, mod)

\* sampleNodeMap(): mod := len(nodeMap) / 100, at least 1; the values
\* t.sample can have afterwards
sampleNodeMap(smp) ==
  LET n == Cardinality(DOMAIN Nodes)
      mod == IF n \div 100 < 1 THEN 1 ELSE n \div 100
  IN UNION {UNION {{smp \o w : w \in SampleWalk(order, 0, s0, mod)} :
                   s0 \in 0..(mod - 1)} :
            order \in Perms(DOMAIN Nodes)}

\* seedFromFixed(): append every seeds.FixedSeeds entry to SeedNodes
seedFromFixed(seeds) == seeds \o FixedSeeds

\* what one ChooseNode call returned from which queue
Taken(addr, from, new, smp, seeds) ==
  [addr |-> addr, from |-> from, NewNodes |-> new, sample |-> smp,
   SeedNodes |-> seeds]

\* the for loop of ChooseNode on the queues new, smp, seeds: the results it
\* can return within fuel iterations; from = "running" when it has not
\* returned by then
RECURSIVE ChooseNodeLoop(_, _, _, _)
ChooseNodeLoop(new, smp, seeds, fuel) ==
  IF fuel = 0 THEN {Taken(NoMapKey, "running", new, smp, seeds)}
  ELSE IF Len(new) > 0
  THEN {Taken(r.val, "NewNodes", r.arr, smp, seeds) : r \in pluckRandom(new)}
  ELSE IF Len(smp) > 0
  THEN {Taken(r.val, "sample", new, r.arr, seeds) : r \in pluckRandom(smp)}
  ELSE UNION {
         IF Len(s2) > 0 THEN ChooseNodeLoop(new, s2, seeds, fuel - 1)
         ELSE IF Len(seeds) > 0
         THEN {Taken(r.val, "SeedNodes", new, s2, r.arr) :
                 r \in pluckRandom(seeds)}
         ELSE ChooseNodeLoop(new, s2, seedFromFixed(seeds), fuel - 1) :
         s2 \in sampleNodeMap(smp)}

mapRest == <<netVars, fwdVars, annVars, storeVars, sockVars>>

\* NetMap.AddNode(address, port, time, services)
AddNode(key, time) ==
  /\ Len(NewNodes) < MaxQueue
  /\ Nodes' = IF key \notin DOMAIN Nodes \/ time > Nodes[key]
              THEN MapPut(Nodes, key, time) ELSE Nodes
  /\ NewNodes' = IF key \notin DOMAIN Nodes THEN Append(NewNodes, key)
                 ELSE NewNodes
  /\ UNCHANGED <<SeedNodes, sample, chosen, mapRest>>

\* NetMap.AddNewNode(address, port)
AddNewNode(key) ==
  /\ Len(NewNodes) < MaxQueue
  /\ NewNodes' = Append(NewNodes, key)
  /\ UNCHANGED <<Nodes, SeedNodes, sample, chosen, mapRest>>

\* NetMap.ChooseNode(), under t.mu from entry to return
ChooseNode ==
  /\ chosen.n < MaxChoose
  /\ \E r \in ChooseNodeLoop(NewNodes, sample, SeedNodes, MaxLoop) :
       /\ NewNodes' = r.NewNodes /\ sample' = r.sample
       /\ SeedNodes' = r.SeedNodes
       /\ chosen' = [n |-> chosen.n + 1, addr |-> r.addr, from |-> r.from]
  /\ UNCHANGED <<Nodes, mapRest>>

NextMap ==
  \/ \E k \in MapKeys, tm \in MapTimes : AddNode(k, tm)
  \/ \E k \in MapKeys : AddNewNode(k)
  \/ ChooseNode

SpecMap == Init /\ [][NextMap]_vars

\* ------------------------------------------------------------------ claims
Live(s) == phase[s] \in {"handshake", "running"}

HoldersOf(k) == {s \in Sessions : <<s, k>> \in grants}

\* C1: identity uniqueness: in every reachable state every NodeKey k has at
\* most one live peer session with peerPub = k, and that session is the one
\* connectedPeers registers for k.
IdentityUniqueness ==
  \A k \in Keys :
    LET live == {s \in Sessions : Live(s) /\ peerPub[s] = k} IN
    /\ Cardinality(live) <= 1
    /\ \A s \in live : k \in DOMAIN connectedPeers /\ connectedPeers[k] = s

\* a session lost the race for a key that another live session holds
IdentityUniquenessWitness ==
  \E s \in lost, u \in Sessions :
    /\ u # s /\ Live(u) /\ phase[u] = "running"
    /\ peerPub[s] # NoPubKey /\ peerPub[u] = peerPub[s]

\* C2: for every NodeKey k, of the trackPeer/adoptPeer calls for k made by
\* different sessions since the holder's last closePeer at most one returned
\* true; the winner stays in connectedPeers, and a session whose call
\* returned false is never registered.
GrantExclusive ==
  /\ \A k \in Keys :
       /\ Cardinality(HoldersOf(k)) <= 1
       /\ \A s \in HoldersOf(k) :
            k \in DOMAIN connectedPeers /\ connectedPeers[k] = s
  /\ \A s \in lost : \A k \in DOMAIN connectedPeers : connectedPeers[k] # s

\* two inbound sessions declared the same key: one is registered, the other
\* was refused, is closed and is gone from connections
GrantExclusiveWitness ==
  \E s \in Sessions, u \in Sessions :
    /\ s # u /\ ~outbound[s] /\ ~outbound[u]
    /\ peerPub[s] # NoPubKey /\ peerPub[u] = peerPub[s]
    /\ phase[s] = "running" /\ HoldersOf(peerPub[s]) = {s}
    /\ u \in lost /\ phase[u] = "closed"
    /\ connections = <<PeerConn(s)>>

ClosePeerStep(s) ==
  /\ phase[s] \in {"handshake", "running", "rejected"}
  /\ phase'[s] = "closed"

\* C3: closePeer(s) removes the connectedPeers entry of s's key only if that
\* entry is s; every entry held by another session is unchanged; s's own
\* connection leaves connections and no other connection does.
ClosePeerFrame ==
  [][\A s \in Sessions : ClosePeerStep(s) =>
       /\ DOMAIN connectedPeers' \subseteq DOMAIN connectedPeers
       /\ \A k \in DOMAIN connectedPeers :
            IF connectedPeers[k] = s
            THEN k \notin DOMAIN connectedPeers'
            ELSE /\ k \in DOMAIN connectedPeers'
                 /\ connectedPeers'[k] = connectedPeers[k]
       /\ PeerConn(s) \notin Range(connections')
       /\ Range(connections') = Range(connections) \ {PeerConn(s)}
       /\ Len(connections') = Len(connections) - 1]_vars

\* a refused session has been closed and the incumbent is still registered
ClosePeerFrameWitness ==
  \E s \in lost :
    /\ phase[s] = "closed" /\ peerPub[s] \in DOMAIN connectedPeers
    /\ connectedPeers[peerPub[s]] # s
    /\ phase[connectedPeers[peerPub[s]]] = "running"

\* C4 (state part): two dials to the same key are at least PeerLockTime apart
HoldOffInv ==
  \A k \in Keys : \A i \in DOMAIN dialLog[k], j \in DOMAIN dialLog[k] :
    i < j => dialLog[k][j] >= dialLog[k][i] + PeerLockTime

\* C4 (step part): lockPeer(P) called when P was never locked, or at or after
\* the last lock time + PeerLockTime, succeeds and a dial is started
ReopenStep ==
  LET P == fpNode.PubKey
      n == Len(dialLog[P]) IN
  (/\ fpPc = "lock" /\ fpPc' # "lock"
   /\ (n = 0 \/ now >= dialLog[P][n] + PeerLockTime))
  => (fpPc' = "dial" /\ dialLog'[P] = Append(dialLog[P], now))

\* C4: dial hold-off: once lockPeer(P) succeeded at time t no dial to P is
\* started before t + 300 s, and a lockPeer(P) at or after t + 300 s succeeds
\* and starts a new dial.
DialHoldOff == []HoldOffInv /\ [][ReopenStep]_vars

\* P was refused one second before the hold-off ended and dialed again
\* exactly PeerLockTime after the first dial
DialHoldOffWitness ==
  \E k \in Keys :
    /\ Len(dialLog[k]) >= 2
    /\ dialLog[k][2] = dialLog[k][1] + PeerLockTime
    /\ fpPc = "dial" /\ fpNode.PubKey = k

\* C5: the attract loop ends only when the service is stopping.
AttractLoopRuns == fpPc = "exit" => stopping

\* what one forwardToPeers(msg) by session s, guarded by changed, does to the
\* send queues
OfferedToPeers(s) ==
  LET m == rx[s][1].msg IN
  \A u \in Sessions :
    sendq'[u] =
      IF /\ rx[s][1].changed
         /\ \E k \in DOMAIN connectedPeers : connectedPeers[k] = u
         /\ Len(sendq[u]) < PeerQueueCap
      THEN sendq[u] \o <<m>>
      ELSE sendq[u]

\* a session holding a decoded announcement can always take its forward step
ForwardNeverBlocks ==
  \A s \in Sessions :
    (rx[s] # <<>> /\ rx[s][1].msg.chan = ChannelNode) => ENABLED PeerFwdAddr(s)

\* C6: forwardToPeers never blocks: every connected peer with room in its
\* queue gets exactly one copy appended, a connected peer whose queue is full
\* and every unconnected session keep their queue unchanged, and the call can
\* always complete.
ForwardToPeersNonBlocking ==
  []ForwardNeverBlocks
  /\ [][\A s \in Sessions : PeerFwdAddr(s) => OfferedToPeers(s)]_vars

\* one connected peer's queue was full and missed the announcement that
\* another connected peer got
ForwardToPeersNonBlockingWitness ==
  \E k1 \in DOMAIN connectedPeers, k2 \in DOMAIN connectedPeers :
    LET u == connectedPeers[k1]
        v == connectedPeers[k2] IN
    /\ u # v
    /\ Len(sendq[u]) = PeerQueueCap
    /\ sendq[v] # <<>>
    /\ sendq[v][Len(sendq[v])] \notin Range(sendq[u])

\* C7: broadcast acyclicity: an announcement received from session s is
\* queued only to connected peers other than s, and only when AddNetNode
\* reported changed.
BroadcastAcyclic ==
  [][\A s \in Sessions : PeerFwdAddr(s) =>
       \A u \in Sessions :
         sendq'[u] # sendq[u] =>
           /\ u # s
           /\ rx[s][1].changed
           /\ \E k \in DOMAIN connectedPeers : connectedPeers[k] = u]_vars

\* what one forwardToHandlers(c, ...) of the next message of session s does
DeliveredToHandlers(s, c) ==
  LET m == ChanMsg(s, c, recvCount + 1)
      tracked == {handlers[i] : i \in DOMAIN handlers}
      room == {h \in tracked : hchan[h] = c /\ Len(hq[h]) < HandlerQueueCap}
  IN /\ \A h \in Handlers :
          hq'[h] = IF h \in room THEN hq[h] \o <<m>> ELSE hq[h]
     /\ rxFound'[s] = (room # {})

\* a running session can always hand its next message to forwardToHandlers
DeliverNeverBlocks ==
  \A s \in Sessions, c \in Channels :
    (phase[s] = "running" /\ connOpen[s] /\ rx[s] = <<>>
     /\ recvCount < MaxMsgs) => ENABLED PeerRecvChan(s, c)

\* C8: forwardToHandlers(tag, hdr, payload) enqueues one copy on every tracked
\* handler whose channel equals tag and whose queue has room, nothing on any
\* other handler, never blocks, and returns true iff some handler enqueued it.
ForwardToHandlersResult ==
  []DeliverNeverBlocks
  /\ [][\A s \in Sessions, c \in Channels :
          PeerRecvChan(s, c) => DeliveredToHandlers(s, c)]_vars

\* two handlers declare the same channel; the queue of one was full and missed
\* the last message, the other got it, and the call returned true
ForwardToHandlersResultWitness ==
  \E g \in Handlers, h \in Handlers, s \in Sessions :
    /\ g # h /\ hphase[g] = "started" /\ hphase[h] = "started"
    /\ hchan[g] = hchan[h]
    /\ Len(hq[g]) = HandlerQueueCap
    /\ hq[h] # <<>>
    /\ hq[h][Len(hq[h])].seq = recvCount
    /\ hq[h][Len(hq[h])].from = s
    /\ \A i \in DOMAIN hq[g] : hq[g][i].seq # recvCount
    /\ rxFound[s]

\* C9: two messages of one peer session that are both on a handler's queue
\* are there in their order of arrival.
HandlerQueueOrder ==
  \A h \in Handlers : \A i \in DOMAIN hq[h], j \in DOMAIN hq[h] :
    (i < j /\ hq[h][i].from = hq[h][j].from) => hq[h][i].seq < hq[h][j].seq

\* a handler's queue holds two messages of one session with a message of
\* that session dropped between them
HandlerQueueOrderWitness ==
  \E h \in Handlers :
    /\ Len(hq[h]) >= 2
    /\ hq[h][1].from = hq[h][2].from
    /\ hq[h][2].seq > hq[h][1].seq + 1

\* the step in which updateAnnounce broadcasts the announcement in hand
BroadcastStep == annPc = "fwd" /\ annPc' # "fwd"

\* the last SetAnnounce call was made with the payload and signature of the
\* announcement in hand
WrittenBefore ==
  /\ setLog # <<>>
  /\ setLog[Len(setLog)].payload = annMsg.Payload
  /\ setLog[Len(setLog)].sig = annMsg.Header.sig

\* the announce table holds the announcement in hand
Persisted ==
  /\ announce # <<>>
  /\ announce[1].payload = annMsg.Payload
  /\ announce[1].sig = annMsg.Header.sig

\* C10 as stated: every broadcast of a newly generated announcement follows
\* the write of its payload and signature to the store, and no announcement
\* is offered to peers that has not been persisted.
BroadcastPersisted == [][BroadcastStep => (WrittenBefore /\ Persisted)]_vars

\* C10: every broadcast of a newly generated announcement follows the
\* SetAnnounce call for its payload and signature, and when that call
\* succeeded the announce table holds them at the broadcast.
BroadcastAfterWrite ==
  [][BroadcastStep =>
       /\ WrittenBefore
       /\ setLog[Len(setLog)].ok => Persisted]_vars

\* a connected peer has been offered a re-signed announcement that the
\* announce table holds
BroadcastAfterWriteWitness ==
  \E s \in Sessions :
    /\ phase[s] = "running" /\ sendq[s] # <<>>
    /\ sendq[s][1] = annMsg
    /\ annPc = "wait" /\ Persisted
    /\ setLog # <<>> /\ setLog[Len(setLog)].ok
    /\ annMsg.Payload.time >= AnnounceLongevity

\* the announce table holds a well-formed row that has not expired and whose
\* payload is the encoding of nextAnnounce under the stored Time
StoredMatches ==
  /\ announce # <<>>
  /\ announce[1].sig # <<>>
  /\ now < announce[1].time
  /\ announce[1].payload =
       [time |-> announce[1].payload.time, body |-> nextAnnounce.body]

\* loadOrGenerateAnnounce returns after a successful read of a matching row
ReuseStep ==
  (annPc = "load" /\ annPc' # "load" /\ StoredMatches /\ ~annErr') =>
    /\ annPc' = "set0"
    /\ annMsg' = RawMessage(announce[1].sig, announce[1].payload)
    /\ annRemain' = announce[1].time - now
    /\ announce' = announce /\ setLog' = setLog /\ sendq' = sendq

\* updateAnnounce caches the re-used announcement and arms the timer
ReuseArmStep ==
  (annPc = "set0" /\ annPc' # "set0" /\ setLog = <<>>) =>
    /\ encAnnounce' = RawMessage(announce[1].sig, announce[1].payload)
    /\ timerAt' = now + (announce[1].time - now)
    /\ announce' = announce /\ setLog' = setLog /\ sendq' = sendq

\* C11: announcement stability on start: a stored announcement that has not
\* expired and equals nextAnnounce but for Time is re-used with its
\* signature; there is no SetAnnounce, the announce row is not overwritten,
\* nothing is broadcast and the timer is armed with expiry minus now.
AnnounceStability == [][ReuseStep /\ ReuseArmStep]_vars

\* the loop waits on a timer armed for the stored expiry, with the stored
\* announcement cached and no SetAnnounce call made
AnnounceStabilityWitness ==
  /\ annPc = "wait" /\ setLog = <<>> /\ ~annErr /\ ticks = 0
  /\ announce # <<>> /\ timerAt = announce[1].time
  /\ encAnnounce = RawMessage(announce[1].sig, announce[1].payload)
  /\ \A s \in Sessions : sendq[s] = <<>>

\* loadOrGenerateAnnounce goes on to generateAnnounce when the row is absent,
\* expired, malformed, different, or could not be read
FreshStep ==
  (annPc = "load" /\ annPc' # "load" /\ (~StoredMatches \/ annErr')) =>
    (annPc' = "gen0" /\ announce' = announce /\ setLog' = setLog)

\* generateAnnounce on start: Time = now, signed, SetAnnounce(payload, sig,
\* now + AnnounceLongevity), remain = AnnounceLongevity
FreshGenerateStep ==
  (annPc = "gen0" /\ annPc' # "gen0") =>
    LET p == [time |-> now, body |-> nextAnnounce.body]
        row == [payload |-> p, sig |-> Signature(p),
                time |-> now + AnnounceLongevity]
        call == setLog'[Len(setLog')] IN
    /\ annPc' = "set0"
    /\ annMsg' = RawMessage(Signature(p), p)
    /\ annRemain' = AnnounceLongevity
    /\ Len(setLog') = Len(setLog) + 1
    /\ [payload |-> call.payload, sig |-> call.sig, time |-> call.time] = row
    /\ announce' = IF call.ok THEN <<row>> ELSE announce
    /\ sendq' = sendq

AddrChangeReceived ==
  (annPc = "wait" /\ ~stopping /\ addrChange.senders # <<>>)
    => ENABLED AnnAddrChange

\* C14: shutdown: once the stop flag is set and Stop has run, the listener,
\* the local socket and every connection in connections are closed, and a
\* connection refused by trackPeer or trackHandler has been closed by its
\* caller.
ShutdownCloses ==
  stopDone =>
    /\ ~listenOpen
    /\ socket # "open"
    /\ \A s \in Sessions :
         (PeerConn(s) \in Range(connections) \/ phase[s] = "dropped")
           => ~connOpen[s]
    /\ \A h \in Handlers :
         (HandConn(h) \in Range(connections) \/ hphase[h] = "dropped")
           => ~hconnOpen[h]

\* a step that is a call of TrimNodes
TrimStep == calls' = calls + 1 /\ ret'.op = "TrimNodes"

\* a step that removes a row from core, node or channels
RowDeleted ==
  \/ DOMAIN core \ DOMAIN core' # {}
  \/ DOMAIN node \ DOMAIN node' # {}
  \/ DOMAIN channels \ DOMAIN channels' # {}

\* a successful call leaves last at the calendar day of the call, so that a
\* later call on that day finds last = today
FirstCallStep ==
  (TrimStep /\ ~ret'.err) =>
    /\ config'.last = today
    /\ ret'.advanced <=> (config.last # today)
    /\ ret'.advanced => config'.dayc = config.dayc + 1

\* a call on the day of last reports advanced = FALSE and changes nothing
SecondCallStep ==
  (TrimStep /\ config.last = today) =>
    /\ ~ret'.advanced
    /\ config' = config
    /\ core' = core /\ node' = node /\ channels' = channels /\ chan' = chan

\* rows disappear only in a call of TrimNodes that advances dayc
DeleteStep ==
  RowDeleted =>
    /\ TrimStep /\ ret'.advanced /\ ~ret'.err
    /\ config'.dayc = config.dayc + 1 /\ config'.last = today

\* C15: day counter: of two TrimNodes calls within one calendar day only the
\* first advances dayc and sets last; the second reports advanced = FALSE,
\* changes neither dayc nor last and deletes no row; rows are deleted from
\* core, node and channels only by a call that advances dayc.
DayCounter == [][FirstCallStep /\ SecondCallStep /\ DeleteStep]_vars

\* the day has changed, a first call has advanced dayc and deleted a row, and
\* a second call on that day has returned advanced = FALSE
DayCounterWitness ==
  /\ ret.op = "TrimNodes" /\ ~ret.advanced /\ ~ret.err
  /\ today > 0 /\ config.last = today
  /\ config.dayc = NetNodeDays + 2
  /\ 1 \notin DOMAIN node /\ 2 \in DOMAIN node

\* the rows of table m (with field dayc) that have at least one day left
\* under day counter dayc
LiveRows(m, dayc) == {k \in DOMAIN m : m[k].dayc > dayc}

\* a call that finds the calendar day changed raises dayc by exactly one
AdvanceByOneStep ==
  (TrimStep /\ ~ret'.err /\ config.last # today) =>
    config'.dayc = config.dayc + 1

\* a call deletes only rows whose expiry was at most the day counter before
\* the call; every row with a day left is kept as it was
SurviveStep ==
  TrimStep =>
    /\ \A a \in LiveRows(core, config.dayc) :
         a \in DOMAIN core' /\ core'[a] = core[a]
    /\ \A k \in LiveRows(node, config.dayc) :
         k \in DOMAIN node' /\ node'[k] = node[k]
    /\ \A c \in DOMAIN channels :
         channels[c] > config.dayc =>
           c \in DOMAIN channels' /\ channels'[c] = channels[c]

\* C16: dayc never decreases, and a TrimNodes call that finds the calendar day
\* changed raises it by exactly one however many days have passed since last;
\* so the first trim after a downtime deletes only rows whose expiry was at
\* most the day counter before the downtime, and every row with a day left
\* survives it.
DayCounterLag ==
  [][config'.dayc >= config.dayc /\ AdvanceByOneStep /\ SurviveStep]_vars

\* two calendar days have passed in one go; the trim that follows has raised
\* dayc by one, deleted the expired peer 1 and kept peer 2, which had one day
\* left
DayCounterLagWitness ==
  /\ ret.op = "TrimNodes" /\ ret.advanced /\ ~ret.err
  /\ today >= 2 /\ config.last = today
  /\ config.dayc = NetNodeDays + 2
  /\ 1 \notin DOMAIN node
  /\ 2 \in DOMAIN node /\ node[2].dayc = NetNodeDays + 2

\* a successful AddCoreNode on an existing row stores the larger of the
\* existing expiry and remainDays + dayc
AddCoreNodeStep ==
  (calls' = calls + 1 /\ ret'.op = "AddCoreNode" /\ ~ret'.err
     /\ ret'.addr \in DOMAIN core) =>
    LET old == core[ret'.addr].dayc
        new == ret'.remain + config.dayc
    IN /\ core'[ret'.addr].dayc >= old
       /\ core'[ret'.addr].dayc = IF old >= new THEN old ELSE new

\* a successful AddNetNode on an existing row does not lower its expiry
AddNetNodeStep ==
  (calls' = calls + 1 /\ ret'.op = "AddNetNode" /\ ~ret'.err
     /\ ret'.key \in DOMAIN node) =>
    node'[ret'.key].dayc >= node[ret'.key].dayc

\* C17: expiry monotonicity: a successful AddCoreNode or AddNetNode on an
\* existing row never leaves the row with a smaller expiry day-count than it
\* had before the call; AddCoreNode stores max(existing, remainDays + dayc).
ExpiryMonotone == [][AddCoreNodeStep /\ AddNetNodeStep]_vars

\* AddCoreNode with remainDays = 1 has met a row with more days left and has
\* kept its expiry, after AddNetNode had replaced the announcement of the
\* stored peer 1 and raised its expiry
ExpiryMonotoneWitness ==
  /\ ret.op = "AddCoreNode" /\ ~ret.err /\ ret.remain = 1
  /\ core[ret.addr].dayc = MaxCoreNodeDays + config.dayc
  /\ 1 \in DOMAIN node /\ node[1].oid = 1 /\ node[1].payload.time = 2
  /\ node[1].dayc = NetNodeDays + config.dayc

\* the keys of table m (with field dayc) whose expiry is at least c
Unexpired(m, c) == {k \in DOMAIN m : m[k].dayc >= c}

\* C18: expiry rule: a TrimNodes call that advances the counter to c deletes
\* exactly the rows of core, node and channels whose expiry is < c and keeps
\* every row whose expiry is >= c as it was; channels too is compared with the
\* advanced counter.
ExpiryRule ==
  [][(TrimStep /\ ret'.advanced /\ ~ret'.err) =>
       LET c == config'.dayc IN
       /\ c = config.dayc + 1
       /\ DOMAIN core' = Unexpired(core, c)
       /\ \A a \in DOMAIN core' : core'[a] = core[a]
       /\ DOMAIN node' = Unexpired(node, c)
       /\ \A k \in DOMAIN node' : node'[k] = node[k]
       /\ DOMAIN channels' = {x \in DOMAIN channels : channels[x] >= c}
       /\ \A x \in DOMAIN channels' : channels'[x] = channels[x]]_vars

\* the first advance has deleted the core node, the peer and the channel
\* whose expiry was below the new counter, and kept peer 2 whose expiry
\* equals it
ExpiryRuleWitness ==
  /\ ret.op = "TrimNodes" /\ ret.advanced /\ ~ret.err
  /\ ret.remCore = 1 /\ ret.remNode = 1
  /\ config.dayc = NetNodeDays + 2
  /\ core = EmptyMap /\ channels = EmptyMap
  /\ DOMAIN node = {2} /\ node[2].dayc = config.dayc

\* C19: ChooseCoreNode returns a record flagged is-new whenever one exists,
\* a record with is-new = FALSE only when no is-new record exists, and an
\* error of kind NotFound when the core table is empty.
ChooseCoreNodeResult ==
  (ret.op = "ChooseCoreNode" /\ ret.dbOk) =>
    LET fresh == {a \in DOMAIN core : core[a].isnew} IN
    /\ fresh # {} => (ret.err = "nil" /\ ret.addr \in fresh)
    /\ (ret.err = "nil" /\ ret.addr \notin fresh) =>
         (fresh = {} /\ ret.addr \in DOMAIN core)
    /\ core = EmptyMap => ret.err = "NotFound"

\* the channels stored for the row of key k in table nd, in table ch
ChannelSet(nd, ch, k) == {x[2] : x \in {y \in ch : y[1] = nd[k].oid}}

\* C20: AddNetNode(key, ..., channels, payload, sig) returns changed = FALSE
\* exactly when a row for key exists whose stored payload equals the supplied
\* one, and then modifies nothing; in every other case it inserts or updates
\* the row, replaces the row's channel set by exactly the supplied channels in
\* the same transaction, and returns changed = TRUE.
AddNetNodeResult ==
  [][(calls' = calls + 1 /\ ret'.op = "AddNetNode" /\ ret'.dbOk) =>
       LET k == ret'.key
           p == ret'.payload
           equal == k \in DOMAIN node /\ node[k].payload = p
       IN /\ ~ret'.changed <=> equal
          /\ equal => (node' = node /\ chan' = chan)
          /\ ~equal =>
               /\ k \in DOMAIN node' /\ node'[k].payload = p
               /\ node'[k].dayc = NetNodeDays + config.dayc
               /\ ChannelSet(node', chan', k) = Range(p.channels)
               /\ \A j \in DOMAIN node \ {k} :
                    j \in DOMAIN node' /\ node'[j] = node[j]]_vars

\* the successful SetAnnounce calls of this run, in order
StoredCalls == SelectSeq(setLog, LAMBDA c : c.ok)

\* C21: the local announcement is a singleton: after any sequence of
\* SetAnnounce calls the announce table holds at most one row, GetAnnounce
\* returns the payload, signature and expiry of the most recent successful
\* SetAnnounce, and empty values when the table holds no row.
AnnounceSingleton ==
  /\ Len(announce) <= 1
  /\ StoredCalls # <<>> =>
       LET last == StoredCalls[Len(StoredCalls)] IN
       GetAnnounce = [payload |-> last.payload, sig |-> last.sig,
                      time |-> last.time]
  /\ announce = <<>> =>
       GetAnnounce = [payload |-> <<>>, sig |-> <<>>, time |-> 0]

\* a second successful SetAnnounce has replaced the row the first one stored
AnnounceSingletonWitness ==
  /\ Len(StoredCalls) >= 2
  /\ StoredCalls[1].time # StoredCalls[2].time
  /\ Len(announce) = 1
  /\ announce[1].time = StoredCalls[Len(StoredCalls)].time

\* C22: every store operation terminates: a transient conflict while
\* beginning, running or committing the transaction is retried, after at most
\* TxnLimit attempts doTxn returns, and a retry never waits for ever, not even
\* for the one connection of the pool that the transaction of the attempt
\* before still holds.
TxnTerminates ==
  /\ txPc \in {"begin", "work", "commit"} => txLimit \in 1..TxnLimit
  /\ ~(txPc = "begin" /\ txConn = "held")

\* C23: failures after startup are never fatal to the process: an error on a
\* peer or handler connection or on an accept socket, the accept error on the
\* local socket that Stop causes by closing it included, ends only the task
\* that owns the socket.
NeverFatal == hsPc # "fatal"

\* a successful contact has been recorded for an address that had a row:
\* AddCoreNode on a present row, or UpdateCoreTime
ContactStep ==
  /\ calls' = calls + 1
  /\ ret'.op \in {"AddCoreNode", "UpdateCoreTime"} /\ ~ret'.err
  /\ ret'.addr \in DOMAIN core

\* C24: after a successful contact is recorded for an existing address
\* (AddCoreNode on a present row, or UpdateCoreTime) the row's is-new flag is
\* false, so the row is not among those ChooseCoreNode prefers as new.
ContactClearsNew ==
  [][ContactStep =>
       /\ ~core'[ret'.addr].isnew
       /\ \A r \in ChooseCoreNode(TRUE)' :
            r.addr = ret'.addr => \A a \in DOMAIN core' : ~core'[a].isnew]_vars

\* a successful AddCoreNode(addr, time, remainDays, services) as an upsert
\* keyed by address
UpsertStep ==
  (calls' = calls + 1 /\ ret'.op = "AddCoreNode" /\ ~ret'.err) =>
    LET a == ret'.addr IN
    /\ DOMAIN core' = DOMAIN core \cup {a}
    /\ \A b \in DOMAIN core \ {a} : core'[b] = core[b]
    /\ core'[a].time = today /\ core'[a].services = ret'.services
    /\ a \notin DOMAIN core =>
         /\ core'[a].isnew
         /\ core'[a].dayc = ret'.remain + config.dayc
    /\ a \in DOMAIN core => core'[a].isnew = core[a].isnew

\* C25: AddCoreNode is an upsert keyed by address: with no row for the
\* address it inserts exactly one row with isnew = TRUE and expiry
\* remainDays + dayc; with a row it updates time and services of that row and
\* adds no row; every other address's row is unchanged.
AddCoreNodeUpsert == [][UpsertStep]_vars

\* AddCoreNode has inserted a row for address 2 next to the row of address 1,
\* after an earlier AddCoreNode had updated time and services of row 1
AddCoreNodeUpsertWitness ==
  /\ ret.op = "AddCoreNode" /\ ~ret.err /\ ret.addr = 2
  /\ DOMAIN core = {1, 2}
  /\ core[2].isnew /\ core[2].dayc = ret.remain + config.dayc
  /\ core[2].time = today /\ today >= 1
  /\ core[1].services = 9 /\ core[1].time = 0

\* a TrimNodes call that returns an error leaves dayc, last and the three
\* tables as they were
RollbackStep ==
  (TrimStep /\ ret'.err) =>
    /\ config' = config /\ core' = core
    /\ node' = node /\ channels' = channels

\* a TrimNodes call that changes dayc or last has also made the deletions
\* that belong to the new dayc
AdvanceStep ==
  (TrimStep /\ config' # config) =>
    /\ ~ret'.err
    /\ core' = KeepRows(core, config'.dayc)
    /\ node' = KeepRows(node, config'.dayc)
    /\ DOMAIN channels' = {c \in DOMAIN channels : channels[c] >= config'.dayc}

\* C26: TrimNodes is atomic: a call of which any step fails leaves dayc, last
\* and the core, node and channels tables exactly as before the call; dayc is
\* never stored advanced without the deletions for the new dayc, and no row
\* is deleted without the advance being stored.
TrimAtomic ==
  [][/\ RollbackStep
     /\ AdvanceStep
     /\ (TrimStep /\ RowDeleted) =>
          (config'.dayc = config.dayc + 1 /\ config'.last = today)]_vars

\* TrimNodes failed after it had advanced dayc and deleted a core row inside
\* the transaction: the stored day counter and the expired core row are as
\* before the call
TrimAtomicWitness ==
  /\ ret.op = "TrimNodes" /\ ret.err /\ ret.advanced /\ ret.remCore = 1
  /\ config = [dayc |-> NetNodeDays + 1, last |-> 0] /\ today = 1
  /\ 1 \in DOMAIN core /\ core[1].dayc < config.dayc + 1

\* C27: after shutdown (Stop has run and the local-accept task has ended) the
\* local control socket is closed and its path is removed, whichever of Stop
\* and the task's bind came first.
SocketRemoved ==
  (stopDone /\ hsPc \in {"exit", "fatal"}) =>
    (socket # "open" /\ ~sockFile)

\* C28: while the service mutex is held no socket or filesystem operation is
\* performed: mutexIO, the set of such calls made so far by a task holding
\* ns.mutex, stays empty.
NoIOUnderMutex == mutexIO = {}

\* choosePeer evaluates its first select while the service is not stopping
SelectStep == fpPc = "choose" /\ fpPc' # "choose" /\ ~stopping

\* a pending suggestion is taken, whatever the number of connected peers
SuggestionFirst ==
  (SelectStep /\ newPeers # <<>>) =>
    /\ fpPc' = "have"
    /\ fpNode' = Head(newPeers) /\ newPeers' = Tail(newPeers)

\* the task turns to the store only from a select that found no suggestion
\* and fewer than IdealPeers connected peers; a node of the store is
\* returned only after that
StoreOnlyBelowIdeal ==
  /\ (fpPc # "sleep" /\ fpPc' = "sleep") =>
       (SelectStep /\ newPeers = <<>> /\ countPeers < IdealPeers)
  /\ (fpPc' = "have" /\ fpPc # "have") =>
       \/ fpPc = "sleep" /\ fpNode'.PubKey \in DOMAIN node
       \/ /\ fpPc \in {"choose", "wait"} /\ newPeers # <<>>
          /\ fpNode' = Head(newPeers)

\* with no suggestion and IdealPeers or more connected peers the task waits;
\* the wait ends with a suggestion being returned or with a new evaluation
WaitOtherwise ==
  /\ (SelectStep /\ newPeers = <<>> /\ countPeers >= IdealPeers) =>
       fpPc' = "wait"
  /\ (fpPc = "wait" /\ fpPc' # "wait") =>
       \/ fpPc' = "have" /\ newPeers # <<>> /\ fpNode' = Head(newPeers)
       \/ fpPc' = "choose" /\ UNCHANGED <<fpNode, newPeers>>

\* C29: peer selection in choosePeer: a pending suggestion in newPeers is
\* taken first and returned whatever the number of connected peers; the store
\* is asked (ChooseNetNode) only when the select found countPeers below
\* IdealPeers; when neither applies the task waits for a suggestion or the
\* timeout and then evaluates again.
ChoosePeerOrder == [][SuggestionFirst /\ StoreOnlyBelowIdeal /\ WaitOtherwise]_vars

\* IdealPeers peers are connected, the store was not asked, and choosePeer
\* has returned the suggestion that AddPeer queued
ChoosePeerOrderWitness ==
  /\ countPeers = IdealPeers
  /\ fpPc = "have" /\ adds = 1 /\ newPeers = <<>>
  /\ fpNode.PubKey \in DOMAIN connectedPeers
  /\ \E s \in Sessions : phase[s] = "handshake" /\ peerPub[s] = fpNode.PubKey

\* the timer has fired: generateAnnounce(ns.nextAnnounce) re-signs the
\* existing nextAnnounce with Time = now and calls SetAnnounce with expiry
\* now + AnnounceLongevity
ResignStep ==
  (annPc = "gen" /\ annPc' # "gen") =>
    LET p == [time |-> now, body |-> nextAnnounce.body]
        row == [payload |-> p, sig |-> Signature(p),
                time |-> now + AnnounceLongevity]
        call == setLog'[Len(setLog')] IN
    /\ annPc' = "set" /\ nextAnnounce' = nextAnnounce
    /\ annMsg' = RawMessage(Signature(p), p)
    /\ annRemain' = AnnounceLongevity
    /\ Len(setLog') = Len(setLog) + 1
    /\ [payload |-> call.payload, sig |-> call.sig, time |-> call.time] = row
    /\ call.ok => announce' = <<row>>

\* the re-signed announcement becomes the current one, is offered to every
\* registered peer with room on its queue, and the timer is armed again with
\* AnnounceLongevity
RearmStep ==
  /\ (annPc = "set" /\ annPc' # "set") =>
       (encAnnounce' = annMsg /\ annPc' = "fwd")
  /\ BroadcastStep =>
       /\ \A s \in Sessions :
            sendq'[s] = IF s \in Range(connectedPeers)
                           /\ Len(sendq[s]) < PeerQueueCap
                        THEN Append(sendq[s], annMsg) ELSE sendq[s]
       /\ timerAt' = now + AnnounceLongevity

\* while the loop waits, its timer is due at the expiry of the stored row
TimerAtExpiry == announce # <<>> /\ timerAt = announce[1].time

\* C30 as stated: each time the timer fires the loop re-signs nextAnnounce
\* with Time = now, persists it with expiry now + longevity, updates the
\* current announcement, broadcasts it and re-arms the timer with longevity;
\* the timer is always armed with the remaining lifetime of the persisted
\* announcement.
RegossipAlwaysArmed ==
  /\ [](annPc = "wait" => TimerAtExpiry)
  /\ [][ResignStep /\ RearmStep]_vars

\* C30: periodic regossip: each time the timer fires the loop re-signs
\* nextAnnounce with Time = now, calls SetAnnounce with expiry now +
\* longevity, updates the current announcement, broadcasts it and re-arms the
\* timer with longevity; when the last SetAnnounce succeeded, or none was
\* needed, the timer is due at the expiry of the stored announcement.
RegossipArmed ==
  /\ []((annPc = "wait" /\ (setLog = <<>> \/ setLog[Len(setLog)].ok))
          => TimerAtExpiry)
  /\ [][ResignStep /\ RearmStep]_vars

\* the timer fired at the stored expiry; the announcement was signed again at
\* that time, stored, made current, offered to a peer, and the timer is due at
\* the new expiry
RegossipArmedWitness ==
  /\ annPc = "wait" /\ now >= AnnounceLongevity
  /\ Len(setLog) >= 1 /\ setLog[Len(setLog)].ok
  /\ announce = <<[payload |-> [time |-> now, body |-> nextAnnounce.body],
                   sig |-> Signature([time |-> now, body |-> nextAnnounce.body]),
                   time |-> now + AnnounceLongevity]>>
  /\ timerAt = now + AnnounceLongevity
  /\ encAnnounce = RawMessage(announce[1].sig, announce[1].payload)
  /\ \E s \in Sessions : sendq[s] # <<>> /\ sendq[s][Len(sendq[s])] = encAnnounce

\* C31: core records are kept for MaxCoreNodeDays midnights: a row written
\* with remainDays = MaxCoreNodeDays at day counter d has expiry d +
\* MaxCoreNodeDays; it survives the advances to smaller values of dayc and is
\* deleted by the TrimNodes call whose advance makes dayc equal to its expiry
\* (the third advance after the write).
CoreLifetime ==
  [][(TrimStep /\ ~ret'.err /\ ret'.advanced) =>
       \A a \in DOMAIN core :
         /\ core[a].dayc > config'.dayc =>
              (a \in DOMAIN core' /\ core'[a] = core[a])
         /\ core[a].dayc = config'.dayc => a \notin DOMAIN core']_vars

\* C32: a trackPeer call that returns false leaves connections and
\* connectedPeers as they were, so connections never holds the socket of a
\* session that trackPeer refused.
RefusedNotTracked ==
  /\ [](\A s \in Sessions :
         phase[s] = "dropped" => PeerConn(s) \notin Range(connections))
  /\ [][\A s \in Sessions :
          (phase[s] # "dropped" /\ phase'[s] = "dropped") =>
            (connections' = connections /\ connectedPeers' = connectedPeers)]_vars

\* C33: referential integrity of the channel subscriptions: every row of the
\* chan table refers to the oid of a row of the node table.
ChanIntegrity ==
  \A r \in chan : \E k \in DOMAIN node : node[k].oid = r[1]

\* C34: a peer session that reads the current announcement for its handshake
\* obtains a complete signed announcement: no session has been started
\* before updateAnnounce has stored the first announcement in encAnnounce.
AnnounceBeforeSessions ==
  \A s \in Sessions :
    phase[s] \in {"handshake", "running"} => encAnnounce # <<>>

\* C35: every suggestion injected through AddPeer while the service is not
\* stopping is eventually taken from newPeers by the attract loop: while the
\* service is not stopping, a queued suggestion has a running attract loop to
\* take it.
SuggestionsTaken ==
  (newPeers # <<>> /\ ~stopping) => fpPc # "exit"

\* the queue after holds the entries of the queue before except one entry
\* equal to addr
PluckedFrom(before, after, addr) ==
  /\ Count(before, addr) >= 1
  /\ \A x \in MapKeys \cup Range(FixedSeeds) :
       Count(after, x) = Count(before, x) - (IF x = addr THEN 1 ELSE 0)

\* one call of ChooseNode
ChooseNodeStep ==
  chosen'.n = chosen.n + 1 =>
    /\ chosen'.from \in {"NewNodes", "sample", "SeedNodes"}
    /\ Nodes' = Nodes
    /\ NewNodes # <<>> =>
         /\ chosen'.from = "NewNodes"
         /\ PluckedFrom(NewNodes, NewNodes', chosen'.addr)
         /\ sample' = sample /\ SeedNodes' = SeedNodes
    /\ (NewNodes = <<>> /\ sample # <<>>) =>
         /\ chosen'.from = "sample"
         /\ PluckedFrom(sample, sample', chosen'.addr)
         /\ NewNodes' = NewNodes /\ SeedNodes' = SeedNodes
    /\ (NewNodes = <<>> /\ sample = <<>> /\ DOMAIN Nodes # {}) =>
         /\ chosen'.from = "sample"
         /\ \E full \in Perms(DOMAIN Nodes) :
              PluckedFrom(full, sample', chosen'.addr)
         /\ NewNodes' = NewNodes /\ SeedNodes' = SeedNodes
    /\ (NewNodes = <<>> /\ sample = <<>> /\ DOMAIN Nodes = {}) =>
         /\ chosen'.from = "SeedNodes"
         /\ PluckedFrom(IF SeedNodes = <<>> THEN FixedSeeds ELSE SeedNodes,
                        SeedNodes', chosen'.addr)
         /\ NewNodes' = NewNodes /\ sample' = sample

\* C36: ChooseNode returns an address from NewNodes whenever NewNodes is not
\* empty, otherwise from the sample of known nodes (taken anew from Nodes
\* when it is empty), and from SeedNodes only when both are empty; the
\* returned entry is removed from the queue it came from, every other queued
\* entry is kept, and the call returns within MaxLoop iterations of its loop.
ChooseNodePriority == [][ChooseNodeStep]_vars

\* the first two calls have emptied NewNodes, which held both known nodes;
\* the third call has sampled the map and returned one node from the sample,
\* which keeps the other; SeedNodes was not touched
ChooseNodePriorityWitness ==
  /\ chosen.n = 3 /\ chosen.from = "sample"
  /\ NewNodes = <<>> /\ SeedNodes = <<>>
  /\ DOMAIN Nodes = {"a", "b"}
  /\ Len(sample) = 1 /\ chosen.addr \notin Range(sample)

====
